---- MODULE Spec2Model ----
(***************************************************************************)
(* Verification model of the networking-and-concurrency core of the        *)
(* kernel: the zero-copy buffer pool / VirtIO device protocol              *)
(* (net_interface.rs), the cooperative executor (executor.rs, main.rs),    *)
(* and the framed transport / handshake / listener (p2p_transport.rs,      *)
(* p2p.rs, p2p_kademlia.rs).                                               *)
(***************************************************************************)
EXTENDS Integers, Sequences, FiniteSets, TLC

(***************************************************************************)
(* Program constants (scaled) and model bounds                             *)
(***************************************************************************)

\* net_interface.rs:19  const QUEUE_SIZE: usize = 256  (scaled down)
QUEUE_SIZE == 2

\* Number of one-page DMA buffers the contiguous arena can hand out before
\* memory::allocate_contiguous_frames has nothing left (model bound).
DmaFrames == 4

\* Live VirtioRxTokenSafe handles at a time: the interface consumes the
\* handle of one receive() before it calls receive() again (model bound).
MaxRxTokens == 1

\* Number of Task objects ever created (model bound).
MaxTasks == 4

\* p2p_kademlia.rs:9  pub const ID_SIZE: usize = 32  (scaled down)
ID_SIZE == 2

\* p2p_kademlia.rs:8  pub const K_BUCKET_SIZE: usize = 20  (scaled down)
K_BUCKET_SIZE == 2

\* size of the u32 length fields (u32::to_le_bytes)
LEN_BYTES == 4

\* p2p_transport.rs:101  the 1024 * 1024 sanity limit of recv_framed
MAX_FRAME == 1048576

\* net_stack.rs:79-80  the 4096-byte rx/tx buffers of the P2P socket, scaled
\* down; like the original it holds a whole identity frame of the node.
SOCKET_BUFFER == 12

\* Longest payload handed to send_framed (model bound).
MaxPayload == 10

\* ipc.rs: ENDPOINT_QUEUE_SIZE is 16, MAX_ENDPOINTS 32 and
\* MAX_MESSAGE_WORDS 8 in the source; the model scales them down.
ENDPOINT_QUEUE_SIZE == 3
MAX_ENDPOINTS == 2
MAX_MESSAGE_WORDS == 2

\* Number of messages accepted by the endpoints in a run (model bound).
MaxSends == 5

\* Number of add_peer calls in a run (model bound).
MaxAdds == 4

\* "no task": task ids are 1..MaxTasks
NoTask == 0

\* Page size in address units (4096 in the source, scaled).
PAGE_SIZE == 4

\* Bound of the model: calls of allocate_contiguous_frames per run.
MaxAllocs == 5

\* Bound of the model: largest `pages` argument of a call.
MaxDmaPages == 2

\* Option::None for a slot of rx_buffers / tx_buffers (buffers are 1..DmaFrames)
NoBuf == 0

VARIABLES
    \* ---- net_interface.rs ----
    pool,        \* BUFFER_POOL: Vec<DmaBuffer>, a sequence of buffer ids
    rx_buffers,  \* VirtioNetDevice.rx_buffers: token -> buffer id or NoBuf
    tx_buffers,  \* VirtioNetDevice.tx_buffers: token -> buffer id or NoBuf
    rxTokens,    \* live VirtioRxTokenSafe handles (the buffer each one holds)
    txToken,     \* TRUE while a VirtioTxToken (a &mut borrow of the device) is live
    pcNet,       \* position of the driver: "new", "idle", "rx_txc", "rx_repl",
                 \* "rx_poll", "tx_txc", "panic"
    newI,        \* loop counter of VirtioNetDevice::new
    nAlloc,      \* number of DmaBuffer::new calls that succeeded
    hwRxAvail,   \* tokens the RX virtqueue holds (submitted, not completed)
    hwRxUsed,    \* RX used ring: tokens the device reports, oldest first
    hwTxAvail,   \* tokens the TX virtqueue holds
    hwTxUsed,    \* TX used ring
    leaked,      \* buffers whose DmaBuffer value was dropped (owned by nobody)
    rogueBuf,    \* the buffer submitted by the latest driver step if that submit
                 \* was answered with a token >= QUEUE_SIZE, else NoBuf
    taken,       \* buffers popped from the pool and not pushed back since
    txDone       \* <<token, buffer>> if the latest step was a TX completion that
                 \* took the buffer out of its slot, else << >>

netVars == <<pool, rx_buffers, tx_buffers, rxTokens, txToken, pcNet, newI, nAlloc,
             hwRxAvail, hwRxUsed, hwTxAvail, hwTxUsed, leaked, rogueBuf, taken, txDone>>

VARIABLES
    \* ---- executor.rs, main.rs ----
    task_queue,    \* Executor.task_queue: VecDeque<Task>, a sequence of task ids
    pcExec,        \* "idle": no pass running; "pass": inside run_ready_tasks;
                   \* "spin": the polled task spins in EXECUTOR.lock()
    tasks_to_run,  \* the local of run_ready_tasks
    executorLock,  \* TRUE while the EXECUTOR spin mutex is held
    nTasks,        \* number of Task objects created so far
    current,       \* the task popped and being polled (only while it spins)
    passStart,     \* the queue as it was when the latest pass began
    polled,        \* tasks polled in the latest pass, in order
    pendingSet,    \* tasks that returned Poll::Pending in the latest pass
    finished,      \* tasks that returned Poll::Ready (dropped)
    spawnAsked     \* tasks a polled task tried to spawn during a pass

execVars == <<task_queue, pcExec, tasks_to_run, executorLock, nTasks, current,
              passStart, polled, pendingSet, finished, spawnAsked>>

VARIABLES
    \* ---- p2p.rs, p2p_transport.rs, p2p_kademlia.rs, net_stack.rs ----
    sock,       \* per node: the smoltcp TCP socket behind p2p_handle
                \* [state, rx, tx]; rx and tx are byte sequences
    p2p,        \* per node: P2P_STATE (Option<P2PState>)
    hs,         \* per node: where the handshake() future is suspended
                \* and the locals of send_framed / recv_framed
    lpc,        \* where the p2p_listen_task future of node "A" is suspended
    peerConn,   \* the remote end of the connection to node "A":
                \* "none", "open" or "fin" (it has sent its FIN)
    peerOut,    \* bytes the remote application has still to send
    held        \* per node: the global spin locks (NETWORK_STACK, P2P_STATE,
                \* BUFFER_POOL) held when control is back in the idle loop

p2pVars == <<sock, p2p, hs, lpc, peerConn, peerOut, held>>

VARIABLES
    \* ---- p2p_transport.rs: one send_framed / recv_framed exchange ----
    frData,     \* the data argument of send_framed; in SpecRecv the raw
                \* bytes the remote end wrote
    frSend,     \* where the send_framed future is suspended, its `sent`
    frRecv      \* where the recv_framed future is suspended, its locals
                \* (read, len_bytes / buffer filled so far, len)

frameVars == <<frData, frSend, frRecv>>

VARIABLES
    \* ---- p2p_kademlia.rs: a RoutingTable and the calls made on it ----
    rt,         \* the RoutingTable
    addLog,     \* the PeerInfo arguments of the add_peer calls so far
    addRet,     \* what KBucket::add returned in the latest add_peer:
                \* "true", "false", or "none" before any call
    findArgs,   \* target and count of the latest find_closest on this table
    findRes,    \* what it returned
    dArgs,      \* the two NodeIds of the latest distance() calls
    dRes,       \* <<a.distance(b), b.distance(a)>>
    idxArg,     \* the distance of the latest get_bucket_index call
    idxRes      \* what it returned

kadVars == <<rt, addLog, addRet, findArgs, findRes, dArgs, dRes, idxArg, idxRes>>

VARIABLES
    \* ---- ipc.rs: an IpcManager and the calls made on it ----
    endpoints,      \* IpcManager.endpoints: slot -> << >> (None) or <<Endpoint>>
    ipcCount,       \* IpcManager.count
    nextEndpointId, \* NEXT_ENDPOINT_ID
    accepted,       \* per slot, the messages of the sends that returned Ok
    received,       \* per slot, the messages of the receives that returned Ok
    ipcRet          \* operation, slot and result of the latest call

ipcVars == <<endpoints, ipcCount, nextEndpointId, accepted, received, ipcRet>>

VARIABLES
    \* ---- main.rs: the spin locks of the kernel's one control flow ----
    mainHeld        \* the locks the idle loop holds itself, outside the futures
                    \* it polls: EXECUTOR during a pass, NETWORK_STACK inside
                    \* poll_network

lockVars == <<mainHeld>>

VARIABLES
    \* ---- memory.rs: the DMA allocator ----
    memMap,         \* MEMORY_REGIONS: the bootloader's memory map
    dmaState,       \* DMA_ALLOCATOR_STATE: << >> for None, <<addr>> for Some
    dmaLog,         \* the regions returned so far, as [addr, pages]
    dmaRet,         \* outcome of the latest call: "Some", "None", "Panic"
    dmaFrames       \* one-page buffers DmaBuffer::new can get before the
                    \* allocation fails

dmaVars == <<memMap, dmaState, dmaLog, dmaRet, dmaFrames>>

vars == <<netVars, execVars, p2pVars, frameVars, kadVars, ipcVars, lockVars, dmaVars>>

Tokens == 0 .. (QUEUE_SIZE - 1)

\* The one out-of-range token value the hardware side may report.
RogueToken == QUEUE_SIZE

SeqToSet(s) == { s[i] : i \in 1 .. Len(s) }

NoDuplicates(sq) == \A i, j \in 1 .. Len(sq) : sq[i] = sq[j] => i = j

Occupied(slots) == { t \in Tokens : slots[t] # NoBuf }

(***************************************************************************)
(* Buffer pool                                                             *)
(***************************************************************************)

\* BUFFER_POOL.lock().push(buf)
PoolPush(p, b) == Append(p, b)

\* BUFFER_POOL.lock().pop().or_else(|| DmaBuffer::new(..)).expect(..):
\* the last element of the pool, else a fresh allocation, else a panic
\* (VirtioHal::dma_alloc expects the contiguous allocation to succeed).
Obtain ==
    IF Len(pool) > 0
    THEN [ok |-> TRUE, buf |-> pool[Len(pool)], pool |-> SubSeq(pool, 1, Len(pool) - 1),
          nAlloc |-> nAlloc, fromPool |-> TRUE]
    ELSE IF nAlloc < dmaFrames
    THEN [ok |-> TRUE, buf |-> nAlloc + 1, pool |-> pool, nAlloc |-> nAlloc + 1,
          fromPool |-> FALSE]
    ELSE [ok |-> FALSE, buf |-> NoBuf, pool |-> pool, nAlloc |-> nAlloc,
          fromPool |-> FALSE]

\* Mutant: take() leaves the buffer in the slot.
TakeSlot_Keep(slots, t) == slots

\* Option::take on a slot
TakeSlot(slots, t) == [slots EXCEPT ![t] = NoBuf]

\* slots[token] = Some(buf); the previous occupant, if any, is dropped
StoreSlot(slots, t, b) == [slots EXCEPT ![t] = b]

Dropped(slots, t) == IF slots[t] # NoBuf THEN {slots[t]} ELSE {}

(***************************************************************************)
(* The virtqueue (virtio_drivers::VirtIONetRaw), seen from the driver       *)
(***************************************************************************)

\* receive_begin / transmit_begin: Err(QueueFull) when every descriptor is
\* held, else Ok(token) with a free token; a device that violates the
\* protocol may answer with an out-of-range token.
SubmitResponses(avail) ==
    IF avail = Tokens
    THEN { [ok |-> FALSE, token |-> 0] }
    ELSE { [ok |-> TRUE, token |-> t] : t \in (Tokens \ avail) \cup {RogueToken} }

InitNet ==
    /\ pool = << >>
    /\ rx_buffers = [t \in Tokens |-> NoBuf]
    /\ tx_buffers = [t \in Tokens |-> NoBuf]
    /\ rxTokens = {}
    /\ txToken = FALSE
    /\ pcNet = "new"
    /\ newI = 0
    /\ nAlloc = 0
    /\ hwRxAvail = {}
    /\ hwRxUsed = << >>
    /\ hwTxAvail = {}
    /\ hwTxUsed = << >>
    /\ leaked = {}
    /\ rogueBuf = NoBuf
    /\ taken = {}
    /\ txDone = << >>

\* VirtioNetDevice::new, one iteration of "for i in 0..QUEUE_SIZE"
NewStep ==
    /\ pcNet = "new"
    /\ newI < QUEUE_SIZE
    /\ IF nAlloc >= dmaFrames
       THEN /\ pcNet' = "panic"
            /\ UNCHANGED <<pool, rx_buffers, tx_buffers, rxTokens, txToken, newI, nAlloc,
                           hwRxAvail, hwRxUsed, hwTxAvail, hwTxUsed, leaked, rogueBuf, taken>>
       ELSE \E r \in SubmitResponses(hwRxAvail) :
            LET buf == nAlloc + 1 IN
            /\ nAlloc' = nAlloc + 1
            /\ newI' = newI + 1
            /\ pcNet' = IF newI + 1 = QUEUE_SIZE THEN "idle" ELSE "new"
            /\ IF r.ok /\ r.token < QUEUE_SIZE
               THEN /\ rx_buffers' = StoreSlot(rx_buffers, r.token, buf)
                    /\ hwRxAvail' = hwRxAvail \cup {r.token}
                    /\ leaked' = leaked \cup Dropped(rx_buffers, r.token)
                    /\ rogueBuf' = NoBuf
               ELSE /\ leaked' = leaked \cup {buf}
                    /\ rogueBuf' = IF r.ok THEN buf ELSE NoBuf
                    /\ UNCHANGED <<rx_buffers, hwRxAvail>>
            /\ UNCHANGED <<pool, tx_buffers, rxTokens, txToken, hwRxUsed, hwTxAvail,
                           hwTxUsed, taken>>
    /\ txDone' = << >>

\* ---- poll_transmit loop, shared by receive() step 1 and transmit() ----

\* Mutant: the completed slot is read without take(), so the buffer stays in it.
CompleteTxSlot_NoTake(slots, t) == slots

\* tx_buffers[token].take() of a reported completion
CompleteTxSlot(slots, t) == TakeSlot(slots, t)

\* Mutant: the completed buffer is pushed to the pool twice.
RecycleTx_Twice(p, b) == PoolPush(PoolPush(p, b), b)

\* Mutant: the completed buffer is dropped instead of pushed to the pool.
RecycleTx_Lost(p, b) == p

\* BUFFER_POOL.lock().push(buf) after transmit_complete
RecycleTx(p, b) == PoolPush(p, b)

\* "Check flight limit" of transmit(): Some(token) iff fewer than QUEUE_SIZE
\* tx_buffers slots are occupied
FlightLimitOk(slots) == Cardinality(Occupied(slots)) < QUEUE_SIZE

\* Device::receive entry: ack_interrupt, then the TX-completion loop
ReceiveBegin ==
    /\ pcNet = "idle"
    /\ ~txToken
    /\ Cardinality(rxTokens) < MaxRxTokens
    /\ pcNet' = "rx_txc"
    /\ UNCHANGED <<pool, rx_buffers, tx_buffers, rxTokens, txToken, newI, nAlloc,
                   hwRxAvail, hwRxUsed, hwTxAvail, hwTxUsed, leaked, taken>>
    /\ rogueBuf' = NoBuf
    /\ txDone' = << >>

\* Device::transmit entry
TransmitBegin ==
    /\ pcNet = "idle"
    /\ ~txToken
    /\ pcNet' = "tx_txc"
    /\ UNCHANGED <<pool, rx_buffers, tx_buffers, rxTokens, txToken, newI, nAlloc,
                   hwRxAvail, hwRxUsed, hwTxAvail, hwTxUsed, leaked, taken>>
    /\ rogueBuf' = NoBuf
    /\ txDone' = << >>

\* One evaluation of "while let Some(token) = self.inner.poll_transmit()".
\* poll_transmit peeks the used ring; only transmit_complete removes the
\* entry, so a token that is out of range or whose slot is empty is seen
\* again by the next evaluation of the loop condition.
TxCompleteStep ==
    /\ pcNet \in {"rx_txc", "tx_txc"}
    /\ IF hwTxUsed = << >>
       THEN /\ pcNet' = IF pcNet = "rx_txc" THEN "rx_repl" ELSE "idle"
            /\ txToken' = (pcNet = "tx_txc" /\ FlightLimitOk(tx_buffers))
            /\ txDone' = << >>
            /\ UNCHANGED <<pool, tx_buffers, hwTxUsed, hwTxAvail, taken>>
       ELSE LET token == Head(hwTxUsed) IN
            IF token < QUEUE_SIZE /\ tx_buffers[token] # NoBuf
            THEN /\ tx_buffers' = CompleteTxSlot(tx_buffers, token)
                 /\ hwTxUsed' = Tail(hwTxUsed)
                 /\ hwTxAvail' = hwTxAvail \ {token}
                 /\ pool' = RecycleTx(pool, tx_buffers[token])
                 /\ taken' = taken \ {tx_buffers[token]}
                 /\ txDone' = <<token, tx_buffers[token]>>
                 /\ UNCHANGED <<pcNet, txToken>>
            ELSE /\ txDone' = << >>
                 /\ UNCHANGED <<pool, tx_buffers, hwTxUsed, hwTxAvail, taken, pcNet, txToken>>
    /\ UNCHANGED <<rx_buffers, rxTokens, newI, nAlloc, hwRxAvail, hwRxUsed, leaked>>
    /\ rogueBuf' = NoBuf

\* ---- receive() step 2: one iteration of the replenish loop ----

\* The buffer of a submit that was answered with an out-of-range token or an
\* error goes back to the pool.
DiscardToPool(p, b) == PoolPush(p, b)

ReplenishStep ==
    /\ pcNet = "rx_repl"
    /\ LET o == Obtain IN
       IF ~o.ok
       THEN /\ pcNet' = "panic"
            /\ UNCHANGED <<pool, rx_buffers, nAlloc, hwRxAvail, leaked, rogueBuf, taken>>
       ELSE \E r \in SubmitResponses(hwRxAvail) :
            /\ nAlloc' = o.nAlloc
            /\ IF r.ok /\ r.token < QUEUE_SIZE
               THEN /\ rx_buffers' = StoreSlot(rx_buffers, r.token, o.buf)
                    /\ hwRxAvail' = hwRxAvail \cup {r.token}
                    /\ leaked' = leaked \cup Dropped(rx_buffers, r.token)
                    /\ pool' = o.pool
                    /\ taken' = IF o.fromPool THEN taken \cup {o.buf} ELSE taken
                    /\ rogueBuf' = NoBuf
                    /\ UNCHANGED pcNet
               ELSE /\ pool' = DiscardToPool(o.pool, o.buf)
                    /\ rogueBuf' = IF r.ok THEN o.buf ELSE NoBuf
                    /\ pcNet' = IF r.ok THEN "rx_repl" ELSE "rx_poll"
                    /\ UNCHANGED <<rx_buffers, hwRxAvail, leaked, taken>>
    /\ UNCHANGED <<tx_buffers, rxTokens, txToken, newI, hwRxUsed, hwTxAvail, hwTxUsed>>
    /\ txDone' = << >>

\* ---- receive() step 3: poll_receive ----
\* receive_complete pops the entry poll_receive has just peeked, so it cannot
\* fail with NotReady or WrongToken here; its Err arm is not taken.
PollRxStep ==
    /\ pcNet = "rx_poll"
    /\ pcNet' = "idle"
    /\ IF hwRxUsed # << >> /\ Head(hwRxUsed) < QUEUE_SIZE
          /\ rx_buffers[Head(hwRxUsed)] # NoBuf
       THEN LET token == Head(hwRxUsed) IN
            /\ rx_buffers' = TakeSlot(rx_buffers, token)
            /\ hwRxUsed' = Tail(hwRxUsed)
            /\ hwRxAvail' = hwRxAvail \ {token}
            /\ rxTokens' = rxTokens \cup {rx_buffers[token]}
            /\ txToken' = TRUE
       ELSE UNCHANGED <<rx_buffers, hwRxUsed, hwRxAvail, rxTokens, txToken>>
    /\ UNCHANGED <<pool, tx_buffers, newI, nAlloc, hwTxAvail, hwTxUsed, leaked,
                   taken>>
    /\ rogueBuf' = NoBuf
    /\ txDone' = << >>

\* ---- the tokens ----

\* Mutant: the handle forgets its buffer instead of returning it.
RxTokenDrop_Leak(p, b) == p

\* Drop for VirtioRxTokenSafe: buffer.take() and push to the pool
RxTokenDrop(p, b) == PoolPush(p, b)

\* RxToken::consume(self, f): f reads the payload in place; self is dropped
\* when consume returns.
RxConsume ==
    /\ pcNet = "idle"
    /\ \E b \in rxTokens :
        /\ rxTokens' = rxTokens \ {b}
        /\ pool' = RxTokenDrop(pool, b)
        /\ taken' = taken \ {b}
    /\ UNCHANGED <<rx_buffers, tx_buffers, txToken, pcNet, newI, nAlloc, hwRxAvail,
                   hwRxUsed, hwTxAvail, hwTxUsed, leaked>>
    /\ rogueBuf' = NoBuf
    /\ txDone' = << >>

\* A VirtioRxTokenSafe that goes out of scope without consume
RxTokenDiscard ==
    /\ pcNet = "idle"
    /\ \E b \in rxTokens :
        /\ rxTokens' = rxTokens \ {b}
        /\ pool' = RxTokenDrop(pool, b)
        /\ taken' = taken \ {b}
    /\ UNCHANGED <<rx_buffers, tx_buffers, txToken, pcNet, newI, nAlloc, hwRxAvail,
                   hwRxUsed, hwTxAvail, hwTxUsed, leaked>>
    /\ rogueBuf' = NoBuf
    /\ txDone' = << >>

\* TxToken::consume(self, len, f)
TxConsume ==
    /\ pcNet = "idle"
    /\ txToken
    /\ txToken' = FALSE
    /\ LET o == Obtain IN
       IF ~o.ok
       THEN /\ pcNet' = "panic"
            /\ UNCHANGED <<pool, tx_buffers, nAlloc, hwTxAvail, leaked, rogueBuf, taken>>
       ELSE \E r \in SubmitResponses(hwTxAvail) :
            /\ nAlloc' = o.nAlloc
            /\ UNCHANGED pcNet
            /\ IF r.ok /\ r.token < QUEUE_SIZE
               THEN /\ tx_buffers' = StoreSlot(tx_buffers, r.token, o.buf)
                    /\ hwTxAvail' = hwTxAvail \cup {r.token}
                    /\ leaked' = leaked \cup Dropped(tx_buffers, r.token)
                    /\ pool' = o.pool
                    /\ taken' = IF o.fromPool THEN taken \cup {o.buf} ELSE taken
                    /\ rogueBuf' = NoBuf
               ELSE /\ pool' = DiscardToPool(o.pool, o.buf)
                    /\ rogueBuf' = IF r.ok THEN o.buf ELSE NoBuf
                    /\ UNCHANGED <<tx_buffers, hwTxAvail, leaked, taken>>
    /\ UNCHANGED <<rx_buffers, rxTokens, newI, hwRxAvail, hwRxUsed, hwTxUsed>>
    /\ txDone' = << >>

\* A VirtioTxToken dropped without consume (it holds only the borrow)
TxTokenDrop ==
    /\ pcNet = "idle"
    /\ txToken
    /\ txToken' = FALSE
    /\ UNCHANGED <<pool, rx_buffers, tx_buffers, rxTokens, pcNet, newI, nAlloc,
                   hwRxAvail, hwRxUsed, hwTxAvail, hwTxUsed, leaked, taken>>
    /\ rogueBuf' = NoBuf
    /\ txDone' = << >>

\* ---- the device side of the virtqueues ----
\* The device runs concurrently with the driver; a completion that arrives
\* while a driver call is running is observed by the call exactly as if it
\* had arrived just before or just after it, so device steps are taken
\* between calls.

\* A packet arrives in a submitted RX buffer: its token enters the used ring.
HwRxComplete ==
    /\ pcNet = "idle"
    /\ \E t \in hwRxAvail \ SeqToSet(hwRxUsed) : hwRxUsed' = Append(hwRxUsed, t)
    /\ UNCHANGED <<pool, rx_buffers, tx_buffers, rxTokens, txToken, pcNet, newI, nAlloc,
                   hwRxAvail, hwTxAvail, hwTxUsed, leaked, rogueBuf, taken>>
    /\ txDone' = << >>

\* The device has sent a submitted TX buffer.
HwTxComplete ==
    /\ pcNet = "idle"
    /\ \E t \in hwTxAvail \ SeqToSet(hwTxUsed) : hwTxUsed' = Append(hwTxUsed, t)
    /\ UNCHANGED <<pool, rx_buffers, tx_buffers, rxTokens, txToken, pcNet, newI, nAlloc,
                   hwRxAvail, hwRxUsed, hwTxAvail, leaked, rogueBuf, taken>>
    /\ txDone' = << >>

\* Protocol violation: the used ring reports a token outside [0, QUEUE_SIZE).
HwRogueUsed ==
    /\ pcNet = "idle"
    /\ \/ /\ RogueToken \notin SeqToSet(hwRxUsed)
          /\ hwRxUsed' = Append(hwRxUsed, RogueToken)
          /\ UNCHANGED hwTxUsed
       \/ /\ RogueToken \notin SeqToSet(hwTxUsed)
          /\ hwTxUsed' = Append(hwTxUsed, RogueToken)
          /\ UNCHANGED hwRxUsed
    /\ UNCHANGED <<pool, rx_buffers, tx_buffers, rxTokens, txToken, pcNet, newI, nAlloc,
                   hwRxAvail, hwTxAvail, leaked, rogueBuf, taken>>
    /\ txDone' = << >>

(***************************************************************************)
(* Buffer pool and device protocol: properties                             *)
(***************************************************************************)

Buffers == 1 .. nAlloc

CountIn(sq, b) == Cardinality({ i \in 1 .. Len(sq) : sq[i] = b })

\* Number of owners of buffer b: pool entries, rx slots, tx slots, RX handles
OwnerCount(b) ==
    CountIn(pool, b)
    + Cardinality({ t \in Tokens : rx_buffers[t] = b })
    + Cardinality({ t \in Tokens : tx_buffers[t] = b })
    + (IF b \in rxTokens THEN 1 ELSE 0)

ThreeTermSum ==
    Len(pool) + Cardinality(Occupied(rx_buffers)) + Cardinality(Occupied(tx_buffers))

\* C1 as stated: once the device is constructed, no step changes
\* |pool| + |occupied rx slots| + |occupied tx slots|.
C1_SumUnchanged == [][pcNet # "new" => ThreeTermSum' = ThreeTermSum]_vars

\* C1 amended: pool entries + occupied rx slots + occupied tx slots + live RX
\* handles + buffers dropped without being pooled equals the number of DMA
\* buffers allocated so far.
C1_Conservation ==
    ThreeTermSum + Cardinality(rxTokens) + Cardinality(leaked) = nAlloc

\* C1 witness: an allocation has happened after construction, a handle is
\* live, and the pool and a TX slot hold buffers.
C1_Witness ==
    /\ pcNet = "idle"
    /\ nAlloc > QUEUE_SIZE
    /\ rxTokens # {}
    /\ Len(pool) > 0
    /\ Occupied(tx_buffers) # {}

\* C2: every DmaBuffer value that exists has exactly one owner (the pool, one
\* rx slot, one tx slot or one RX handle), a dropped one has none, and the
\* descriptors the device holds are exactly the occupied slots.
C2_ExclusiveOwnership ==
    /\ \A b \in Buffers : OwnerCount(b) = (IF b \in leaked THEN 0 ELSE 1)
    /\ hwRxAvail = Occupied(rx_buffers)
    /\ hwTxAvail = Occupied(tx_buffers)

\* C2 witness: the four kinds of owner hold a buffer each at the same time.
C2_Witness ==
    /\ Len(pool) > 0
    /\ Occupied(rx_buffers) # {}
    /\ Occupied(tx_buffers) # {}
    /\ rxTokens # {}

\* C7 in a form a finite run refutes: once the kernel has halted nothing is
\* pushed any more, so every buffer taken out of the pool must be back in it.
C7_TakenReturnedAtHalt == pcNet = "panic" => taken = {}

\* C8: a step that ends an RX handle appends exactly that handle's buffer to
\* the pool, once.
C8_RxHandleRelease ==
    [][\A b \in rxTokens \ rxTokens' :
          /\ pool' = Append(pool, b)
          /\ CountIn(pool', b) = 1]_vars

\* C8 witness: a buffer that VirtioNetDevice::new submitted to the RX queue is
\* in the pool and no handle is live: its handle has been finished.
C8_Witness ==
    /\ rxTokens = {}
    /\ \E b \in 1 .. QUEUE_SIZE : CountIn(pool, b) = 1

\* C9: the buffer of a submit that the queue answered with a token
\* >= QUEUE_SIZE is in the free pool after the step.
C9_RogueBufferPooled == rogueBuf # NoBuf => CountIn(pool, rogueBuf) = 1

\* C10: running out of buffers (pool empty, DMA arena exhausted) never halts
\* the kernel.
C10_NoFatalEscalation == pcNet # "panic"


(***************************************************************************)
(* Cooperative executor (executor.rs) driven by the idle loop (main.rs)    *)
(***************************************************************************)

InitExecutor ==
    /\ task_queue = << >>
    /\ pcExec = "idle"
    /\ tasks_to_run = 0
    /\ executorLock = FALSE
    /\ nTasks = 0
    /\ current = NoTask
    /\ passStart = << >>
    /\ polled = << >>
    /\ pendingSet = {}
    /\ finished = {}
    /\ spawnAsked = {}

\* Mutant: a pending task is put back in front of the task requeued before it.
Requeue_Swapped(q, t) ==
    IF q # << >> /\ q[Len(q)] \in pendingSet
    THEN SubSeq(q, 1, Len(q) - 1) \o <<t, q[Len(q)]>>
    ELSE Append(q, t)

\* Mutant: a pending task is put back at the head of the queue.
Requeue_Front(q, t) == <<t>> \o q

\* Mutant: a pending task is pushed back twice.
Requeue_Twice(q, t) == Append(Append(q, t), t)

\* Mutant: a pending task is not pushed back.
Requeue_Dropped(q, t) == q

\* Poll::Pending => self.task_queue.push_back(task)
Requeue(q, t) == Append(q, t)

\* Mutant: the pass re-reads the queue length instead of counting down.
Remaining_Requeued(n, q) == Len(q)

\* tasks_to_run -= 1 (q is the queue after the poll)
Remaining(n, q) == n - 1

\* EXECUTOR.lock().spawn(Task::new(..)) from outside a pass (p2p::init):
\* the lock is free, the task goes to the tail of the queue.
ExecSpawn ==
    /\ pcExec = "idle"
    /\ ~executorLock
    /\ nTasks < MaxTasks
    /\ nTasks' = nTasks + 1
    /\ task_queue' = Append(task_queue, nTasks + 1)
    /\ UNCHANGED <<pcExec, tasks_to_run, executorLock, current, passStart, polled,
                   pendingSet, finished, spawnAsked>>

\* main.rs:231 EXECUTOR.lock().poll(): the guard lives for the whole call;
\* run_ready_tasks snapshots the queue length.
ExecPollBegin ==
    /\ pcExec = "idle"
    /\ ~executorLock
    /\ executorLock' = TRUE
    /\ pcExec' = "pass"
    /\ tasks_to_run' = Len(task_queue)
    /\ passStart' = task_queue
    /\ polled' = << >>
    /\ pendingSet' = {}
    /\ UNCHANGED <<task_queue, nTasks, current, finished, spawnAsked>>

\* One iteration of "while tasks_to_run > 0": pop_front, poll once, requeue
\* on Pending.  The polled future either returns Ready or Pending, or it
\* calls EXECUTOR.lock().spawn(..): the spin mutex is held by the idle loop,
\* so that call never returns.
ExecPollStep ==
    /\ pcExec = "pass"
    /\ tasks_to_run > 0
    /\ IF task_queue = << >>
       THEN /\ tasks_to_run' = Remaining(tasks_to_run, task_queue)
            /\ UNCHANGED <<task_queue, pcExec, current, polled, pendingSet, finished,
                           spawnAsked, nTasks>>
       ELSE LET task == Head(task_queue) IN
            /\ polled' = Append(polled, task)
            /\ \/ \* Poll::Ready(())
                  /\ task_queue' = Tail(task_queue)
                  /\ finished' = finished \cup {task}
                  /\ tasks_to_run' = Remaining(tasks_to_run, task_queue')
                  /\ UNCHANGED <<pcExec, current, pendingSet, spawnAsked, nTasks>>
               \/ \* Poll::Pending
                  /\ task_queue' = Requeue(Tail(task_queue), task)
                  /\ pendingSet' = pendingSet \cup {task}
                  /\ tasks_to_run' = Remaining(tasks_to_run, task_queue')
                  /\ UNCHANGED <<pcExec, current, finished, spawnAsked, nTasks>>
               \/ \* the future calls EXECUTOR.lock().spawn(Task::new(child))
                  /\ nTasks < MaxTasks
                  /\ executorLock
                  /\ nTasks' = nTasks + 1
                  /\ spawnAsked' = spawnAsked \cup {nTasks + 1}
                  /\ task_queue' = Tail(task_queue)
                  /\ current' = task
                  /\ pcExec' = "spin"
                  /\ UNCHANGED <<tasks_to_run, pendingSet, finished>>
    /\ UNCHANGED <<executorLock, passStart>>

\* run_ready_tasks returns; the guard of main.rs:231 is dropped.
ExecPollEnd ==
    /\ pcExec = "pass"
    /\ tasks_to_run = 0
    /\ pcExec' = "idle"
    /\ executorLock' = FALSE
    /\ UNCHANGED <<task_queue, tasks_to_run, nTasks, current, passStart, polled,
                   pendingSet, finished, spawnAsked>>

\* spin::Mutex::lock of a mutex its own control flow holds: the loop
\* re-tests the flag and finds it set.
ExecSpin ==
    /\ pcExec = "spin"
    /\ executorLock
    /\ UNCHANGED execVars

(***************************************************************************)
(* Kademlia identifiers and routing table (p2p_kademlia.rs)                *)
(***************************************************************************)

Min(a, b) == IF a < b THEN a ELSE b

RemoveAt(sq, i) == SubSeq(sq, 1, i - 1) \o SubSeq(sq, i + 1, Len(sq))

Bit(x, i) == (x \div (2 ^ i)) % 2

\* Mutant: the bytes are OR-ed.
Xor8_Or(a, b) ==
    LET d(i) == IF Bit(a, i) = 1 \/ Bit(b, i) = 1 THEN 2 ^ i ELSE 0
    IN  d(0) + d(1) + d(2) + d(3) + d(4) + d(5) + d(6) + d(7)

\* u8 ^ u8
Xor8(a, b) ==
    LET d(i) == IF Bit(a, i) # Bit(b, i) THEN 2 ^ i ELSE 0
    IN  d(0) + d(1) + d(2) + d(3) + d(4) + d(5) + d(6) + d(7)

\* NodeId::distance: bytewise XOR
distance(a, b) == [i \in 1 .. ID_SIZE |-> Xor8(a[i], b[i])]

\* u8::leading_zeros
ByteLeadingZeros(x) ==
    IF x = 0 THEN 8
    ELSE CHOOSE k \in 0 .. 7 : 2 ^ (7 - k) <= x /\ x < 2 ^ (8 - k)

RECURSIVE LeadingZerosFrom(_, _)
LeadingZerosFrom(id, i) ==
    IF i > Len(id) THEN 0
    ELSE IF id[i] = 0 THEN 8 + LeadingZerosFrom(id, i + 1)
    ELSE ByteLeadingZeros(id[i])

\* Mutant: the count goes on behind the first non-zero byte.
leading_zeros_NoBreak(id) ==
    LET z(i) == ByteLeadingZeros(id[i])
        RECURSIVE Sum(_)
        Sum(i) == IF i > Len(id) THEN 0 ELSE z(i) + Sum(i + 1)
    IN  Sum(1)

\* NodeId::leading_zeros
leading_zeros(id) == LeadingZerosFrom(id, 1)

\* RoutingTable::new: ID_SIZE * 8 empty buckets, indexed from 0
RoutingTableNew(local_id) ==
    [local_id |-> local_id, buckets |-> [i \in 0 .. (ID_SIZE * 8 - 1) |-> << >>]]

\* Mutant: a known peer is overwritten where it is, not moved to the tail.
KBucketAdd_InPlace(peers, peer) ==
    IF \E i \in 1 .. Len(peers) : peers[i].node_id = peer.node_id
    THEN [i \in 1 .. Len(peers) |->
              IF peers[i].node_id = peer.node_id THEN peer ELSE peers[i]]
    ELSE IF Len(peers) < K_BUCKET_SIZE THEN Append(peers, peer)
    ELSE peers

\* Mutant: a known peer moves to the tail with its old PeerInfo.
KBucketAdd_KeepsOld(peers, peer) ==
    IF \E i \in 1 .. Len(peers) : peers[i].node_id = peer.node_id
    THEN LET idx == CHOOSE i \in 1 .. Len(peers) : peers[i].node_id = peer.node_id
         IN  Append(RemoveAt(peers, idx), peers[idx])
    ELSE IF Len(peers) < K_BUCKET_SIZE THEN Append(peers, peer)
    ELSE peers

\* Mutant: a full bucket drops its oldest entry for a new peer.
KBucketAdd_Evicting(peers, peer) ==
    IF \E i \in 1 .. Len(peers) : peers[i].node_id = peer.node_id
    THEN Append(RemoveAt(peers, CHOOSE i \in 1 .. Len(peers) :
                                    peers[i].node_id = peer.node_id), peer)
    ELSE IF Len(peers) < K_BUCKET_SIZE THEN Append(peers, peer)
    ELSE Append(Tail(peers), peer)

\* Mutant: a bucket takes a new peer whether it is full or not.
KBucketAdd_Unbounded(peers, peer) ==
    IF \E i \in 1 .. Len(peers) : peers[i].node_id = peer.node_id
    THEN Append(RemoveAt(peers, CHOOSE i \in 1 .. Len(peers) :
                                    peers[i].node_id = peer.node_id), peer)
    ELSE Append(peers, peer)

\* KBucket::add
KBucketAdd(peers, peer) ==
    IF \E i \in 1 .. Len(peers) : peers[i].node_id = peer.node_id
    THEN LET idx == CHOOSE i \in 1 .. Len(peers) :
                        /\ peers[i].node_id = peer.node_id
                        /\ \A j \in 1 .. (i - 1) : peers[j].node_id # peer.node_id
         IN  Append(RemoveAt(peers, idx), peer)
    ELSE IF Len(peers) < K_BUCKET_SIZE THEN Append(peers, peer)
    ELSE peers

\* RoutingTable::get_bucket_index
get_bucket_index(table, dist) ==
    IF \A i \in 1 .. Len(dist) : dist[i] = 0 THEN 0
    ELSE LET zeros == leading_zeros(dist)
             nb == Cardinality(DOMAIN table.buckets)
         IN  IF zeros >= nb THEN nb - 1 ELSE zeros

\* Mutant: the bucket is chosen from the peer's NodeId, not from its
\* distance to local_id.
add_peer_ByNodeId(table, peer) ==
    LET bucket_idx == get_bucket_index(table, peer.node_id)
    IN  IF bucket_idx \in DOMAIN table.buckets
        THEN [table EXCEPT !.buckets[bucket_idx] = KBucketAdd(@, peer)]
        ELSE table

\* RoutingTable::add_peer
add_peer(table, peer) ==
    LET dist == distance(table.local_id, peer.node_id)
        bucket_idx == get_bucket_index(table, dist)
    IN  IF bucket_idx \in DOMAIN table.buckets
        THEN [table EXCEPT !.buckets[bucket_idx] = KBucketAdd(@, peer)]
        ELSE table

\* every PeerInfo of the table, bucket after bucket
RECURSIVE EntriesFrom(_, _)
EntriesFrom(table, i) ==
    IF i \notin DOMAIN table.buckets THEN << >>
    ELSE table.buckets[i] \o EntriesFrom(table, i + 1)

Entries(table) == EntriesFrom(table, 0)

(***************************************************************************)
(* The routing table under a sequence of add_peer / find_closest calls     *)
(***************************************************************************)

\* the boolean KBucket::add returns
KBucketAddAccepts(peers, peer) ==
    \/ \E i \in 1 .. Len(peers) : peers[i].node_id = peer.node_id
    \/ Len(peers) < K_BUCKET_SIZE

\* Mutant: NodeIds are compared from their last byte.
NodeIdLess_LastByteFirst(a, b) ==
    \E i \in 1 .. Len(a) :
        /\ a[i] < b[i]
        /\ \A j \in (i + 1) .. Len(a) : a[j] = b[j]

\* the derived Ord of NodeId([u8; ID_SIZE]): lexicographic on the bytes
NodeIdLess(a, b) ==
    \E i \in 1 .. Len(a) :
        /\ a[i] < b[i]
        /\ \A j \in 1 .. (i - 1) : a[j] = b[j]

\* one step of the stable sort of find_closest: x goes behind every element
\* that is not farther from target than x
RECURSIVE InsertByDistance(_, _, _)
InsertByDistance(sorted, x, target) ==
    IF sorted = << >> THEN <<x>>
    ELSE IF NodeIdLess(distance(x.node_id, target), distance(Head(sorted).node_id, target))
    THEN <<x>> \o sorted
    ELSE <<Head(sorted)>> \o InsertByDistance(Tail(sorted), x, target)

\* closest.sort_by(|a, b| a.node_id.distance(target).cmp(&b.node_id.distance(target)))
RECURSIVE SortByDistance(_, _)
SortByDistance(sq, target) ==
    IF sq = << >> THEN << >>
    ELSE InsertByDistance(SortByDistance(SubSeq(sq, 1, Len(sq) - 1), target),
                          sq[Len(sq)], target)

\* Vec::truncate
Truncate(sq, count) == SubSeq(sq, 1, Min(count, Len(sq)))

\* RoutingTable::find_closest
find_closest(table, target, count) ==
    Truncate(SortByDistance(Entries(table), target), count)

\* the NodeId of the table's owner
TableLocalId == <<0, 5>>

\* NodeIds offered to add_peer: the owner's own id, one in the farthest
\* bucket, one in the nearest, and three that share a bucket
TableIds == { <<0, 5>>, <<128, 5>>, <<0, 4>>, <<0, 1>>, <<0, 2>>, <<0, 3>> }

\* targets of find_closest: a NodeId of the table and one outside it
TableTargets == { <<0, 2>>, <<200, 9>> }

\* PeerInfo values offered to add_peer; one NodeId comes with two strings
TablePeers ==
    { [node_id |-> id, peer_id_str |-> <<65>>] : id \in TableIds }
        \cup { [node_id |-> <<0, 1>>, peer_id_str |-> <<66, 67>>] }

InitKadOff ==
    /\ rt = RoutingTableNew(TableLocalId)
    /\ addLog = << >>
    /\ addRet = "none"
    /\ findArgs = [called |-> FALSE, target |-> << >>, count |-> 0]
    /\ findRes = << >>
    /\ dArgs = << >>
    /\ dRes = << >>
    /\ idxArg = << >>
    /\ idxRes = 0

(***************************************************************************)
(* IPC endpoints                                                           *)
(***************************************************************************)

\* Message::new(label)
MessageNew(label) ==
    [label |-> label, data |-> [i \in 1 .. MAX_MESSAGE_WORDS |-> 0],
     length |-> 0, sender_id |-> 0]

\* Message::with_data1(label, word0)
MessageWithData1(label, word0) ==
    [MessageNew(label) EXCEPT !.data[1] = word0, !.length = 1]

\* the messages handed to send
Messages == { MessageNew(1), MessageWithData1(2, 7) }

\* Endpoint::new with the id drawn from NEXT_ENDPOINT_ID; a queue slot is
\* << >> for None and <<msg>> for Some(msg)
EndpointNew(id) ==
    [id |-> id, queue |-> [i \in 0 .. (ENDPOINT_QUEUE_SIZE - 1) |-> << >>],
     head |-> 0, tail |-> 0, count |-> 0]

\* Mutant: a full endpoint reports QueueFull but stores the message over the
\* oldest one.
EndpointSend_Overwrites(ep, msg) ==
    IF ep.count >= ENDPOINT_QUEUE_SIZE
    THEN [ep |-> [ep EXCEPT !.queue[ep.tail] = <<msg>>], res |-> "QueueFull"]
    ELSE [ep |-> [ep EXCEPT !.queue[ep.tail] = <<msg>>,
                            !.tail = (ep.tail + 1) % ENDPOINT_QUEUE_SIZE,
                            !.count = @ + 1],
          res |-> "Ok"]

\* Mutant: the write pointer does not wrap.
EndpointSend_NoWrap(ep, msg) ==
    IF ep.count >= ENDPOINT_QUEUE_SIZE THEN [ep |-> ep, res |-> "QueueFull"]
    ELSE [ep |-> [ep EXCEPT !.queue[ep.tail] = <<msg>>,
                            !.tail = Min(ep.tail + 1, ENDPOINT_QUEUE_SIZE - 1),
                            !.count = @ + 1],
          res |-> "Ok"]

\* Endpoint::send
EndpointSend(ep, msg) ==
    IF ep.count >= ENDPOINT_QUEUE_SIZE THEN [ep |-> ep, res |-> "QueueFull"]
    ELSE [ep |-> [ep EXCEPT !.queue[ep.tail] = <<msg>>,
                            !.tail = (ep.tail + 1) % ENDPOINT_QUEUE_SIZE,
                            !.count = @ + 1],
          res |-> "Ok"]

\* Mutant: receive copies the message and leaves it in its slot.
EndpointReceive_NoTake(ep) ==
    IF ep.count = 0 THEN [ep |-> ep, res |-> "QueueEmpty", msg |-> << >>]
    ELSE IF ep.queue[ep.head] = << >> THEN [ep |-> ep, res |-> "Panic", msg |-> << >>]
    ELSE [ep |-> [ep EXCEPT !.head = (ep.head + 1) % ENDPOINT_QUEUE_SIZE,
                            !.count = @ - 1],
          res |-> "Ok", msg |-> ep.queue[ep.head]]

\* Endpoint::receive; expect() on an empty slot panics
EndpointReceive(ep) ==
    IF ep.count = 0 THEN [ep |-> ep, res |-> "QueueEmpty", msg |-> << >>]
    ELSE IF ep.queue[ep.head] = << >> THEN [ep |-> ep, res |-> "Panic", msg |-> << >>]
    ELSE [ep |-> [ep EXCEPT !.queue[ep.head] = << >>,
                            !.head = (ep.head + 1) % ENDPOINT_QUEUE_SIZE,
                            !.count = @ - 1],
          res |-> "Ok", msg |-> ep.queue[ep.head]]

\* Endpoint::pending_count
pending_count(ep) == ep.count

Slots == 0 .. (MAX_ENDPOINTS - 1)

\* self.endpoints.get(endpoint_slot) matches Some(Some(endpoint))
SlotValid(slot) == slot \in Slots /\ endpoints[slot] # << >>

\* IpcManager::new, nothing called yet
InitIpcOff ==
    /\ endpoints = [i \in Slots |-> << >>]
    /\ ipcCount = 0
    /\ nextEndpointId = 1
    /\ accepted = [i \in Slots |-> << >>]
    /\ received = [i \in Slots |-> << >>]
    /\ ipcRet = [op |-> "none", slot |-> 0, res |-> "none", msg |-> << >>]

(***************************************************************************)
(* The DMA allocator (memory.rs)                                           *)
(***************************************************************************)

\* memory maps of the bootloader: page-aligned regions in address order;
\* the largest usable one is the last, the last of two equal ones, or the
\* first (which starts at address 0)
MemoryMaps ==
    { << [start |-> 0, end |-> 4, usable |-> TRUE],
         [start |-> 4, end |-> 8, usable |-> FALSE],
         [start |-> 8, end |-> 32, usable |-> TRUE] >>,
      << [start |-> 4, end |-> 16, usable |-> TRUE],
         [start |-> 16, end |-> 20, usable |-> FALSE],
         [start |-> 20, end |-> 32, usable |-> TRUE] >>,
      << [start |-> 0, end |-> 24, usable |-> TRUE],
         [start |-> 24, end |-> 28, usable |-> FALSE],
         [start |-> 28, end |-> 32, usable |-> TRUE] >> }

\* regions.iter().filter(Usable).max_by_key(end - start): the index of the
\* largest usable region, the last one among equals; 0 if there is none
LargestUsable(map) ==
    LET usable == { i \in 1 .. Len(map) : map[i].usable }
        size(i) == map[i].end - map[i].start
        largest == { i \in usable : \A j \in usable : size(j) <= size(i) }
    IN  IF usable = {} THEN 0
        ELSE CHOOSE i \in largest : \A j \in largest : j <= i

\* PhysAddr::align_down(4096)
align_down(addr) == addr - (addr % PAGE_SIZE)

\* memory::allocate_contiguous_frames(pages); PhysAddr - u64 panics when
\* the difference would be negative
allocate_contiguous_frames(state, map, pages) ==
    LET r == LargestUsable(map) IN
    IF state = << >> /\ r = 0 THEN [state |-> state, res |-> "None", addr |-> 0]
    ELSE LET current_end == IF state = << >> THEN map[r].end ELSE state[1]
             new_end == current_end - pages * PAGE_SIZE
         IN  IF new_end < 0
             THEN [state |-> <<current_end>>, res |-> "Panic", addr |-> 0]
             ELSE [state |-> <<align_down(new_end)>>, res |-> "Some",
                   addr |-> align_down(new_end)]

\* the allocator outside the runs that exercise it
InitDmaOff ==
    /\ memMap = << [start |-> 0, end |-> 4, usable |-> TRUE] >>
    /\ dmaState = << >>
    /\ dmaLog = << >>
    /\ dmaRet = "none"
    /\ dmaFrames = DmaFrames

\* the same with room for one more buffer: enough for every TX slot, every
\* RX slot and the buffer the replenish loop needs to learn QueueFull
InitDmaLarge ==
    /\ memMap = << [start |-> 0, end |-> 4, usable |-> TRUE] >>
    /\ dmaState = << >>
    /\ dmaLog = << >>
    /\ dmaRet = "none"
    /\ dmaFrames = DmaFrames + 1

\* init_regions has stored the bootloader's map; nothing allocated yet
InitDma ==
    /\ memMap \in MemoryMaps
    /\ dmaState = << >>
    /\ dmaLog = << >>
    /\ dmaRet = "none"
    /\ dmaFrames = DmaFrames

(***************************************************************************)
(* Byte conversions                                                        *)
(***************************************************************************)

\* Mutant: the length prefix is written most significant byte first.
to_le_bytes_BigEndian(n) ==
    <<(n \div 16777216) % 256, (n \div 65536) % 256, (n \div 256) % 256, n % 256>>

\* u32::to_le_bytes
to_le_bytes(n) ==
    <<n % 256, (n \div 256) % 256, (n \div 65536) % 256, (n \div 16777216) % 256>>

\* Mutant: the length is decoded most significant byte first.
from_le_bytes_BigEndian(b) == b[4] + 256 * b[3] + 65536 * b[2] + 16777216 * b[1]

\* u32::from_le_bytes
from_le_bytes(b) == b[1] + 256 * b[2] + 65536 * b[3] + 16777216 * b[4]

\* String::from_utf8_lossy on the bytes the model uses: ASCII bytes are kept,
\* the byte 0xFF (never valid in UTF-8) becomes U+FFFD, i.e. EF BF BD.
RECURSIVE from_utf8_lossy(_)
from_utf8_lossy(bytes) ==
    IF bytes = << >> THEN << >>
    ELSE (IF Head(bytes) < 128 THEN <<Head(bytes)>> ELSE <<239, 191, 189>>)
         \o from_utf8_lossy(Tail(bytes))

\* Mutant: a declared length equal to the limit is rejected too.
FrameTooLong_Inclusive(len) == len >= MAX_FRAME

\* recv_framed: if len > 1024 * 1024 { return Err(()); }
FrameTooLong(len) == len > MAX_FRAME

\* send_framed / recv_framed wire format: u32-LE length, then the data
Frame(data) == to_le_bytes(Len(data)) \o data

(***************************************************************************)
(* The smoltcp TCP socket as the transport uses it                         *)
(***************************************************************************)

Nodes == {"A", "B"}

Other(n) == IF n = "A" THEN "B" ELSE "A"

SocketNew(state) == [state |-> state, rx |-> << >>, tx |-> << >>]

may_recv(s) == s.state \in {"Established", "FinWait1", "FinWait2"} \/ s.rx # << >>

can_recv(s) == may_recv(s) /\ s.rx # << >>

may_send(s) == s.state \in {"Established", "CloseWait"}

can_send(s) == may_send(s) /\ Len(s.tx) < SOCKET_BUFFER

is_active(s) == s.state \notin {"Closed", "TimeWait", "Listen"}

\* tcp::Socket::close
socket_close(s) ==
    [s EXCEPT !.state = CASE @ = "Listen" -> "Closed"
                          [] @ \in {"SynReceived", "Established"} -> "FinWait1"
                          [] @ = "CloseWait" -> "LastAck"
                          [] OTHER -> @]

\* tcp::Socket::listen(40444).ok(): refused while the socket is open,
\* otherwise the socket is reset (buffers cleared) and listens
socket_listen(s) ==
    IF s.state \notin {"Closed", "TimeWait"} THEN s ELSE SocketNew("Listen")

FuturePending(s) == [kind |-> "pending", n |-> 0, bytes |-> << >>, sock |-> s]

FutureErr(s) == [kind |-> "err", n |-> 0, bytes |-> << >>, sock |-> s]

\* Mutant: a read that finds no data fails instead of waiting.
TcpReadPoll_ErrOnEmpty(s, want) ==
    IF can_recv(s) /\ Min(want, Len(s.rx)) > 0
    THEN LET n == Min(want, Len(s.rx))
         IN  [kind |-> "ok", n |-> n, bytes |-> SubSeq(s.rx, 1, n),
              sock |-> [s EXCEPT !.rx = SubSeq(@, n + 1, Len(@))]]
    ELSE FutureErr(s)

\* TcpReadFuture::poll with a buffer slice of `want` bytes
TcpReadPoll(s, want) ==
    IF can_recv(s)
    THEN LET n == Min(want, Len(s.rx))
         IN  IF n > 0
             THEN [kind |-> "ok", n |-> n, bytes |-> SubSeq(s.rx, 1, n),
                   sock |-> [s EXCEPT !.rx = SubSeq(@, n + 1, Len(@))]]
             ELSE FuturePending(s)
    ELSE IF ~is_active(s) \/ s.state = "Closed" THEN FutureErr(s)
    ELSE FuturePending(s)

\* TcpWriteFuture::poll
TcpWritePoll(s, data) ==
    IF can_send(s)
    THEN LET n == Min(Len(data), SOCKET_BUFFER - Len(s.tx))
         IN  IF n > 0
             THEN [kind |-> "ok", n |-> n, bytes |-> << >>,
                   sock |-> [s EXCEPT !.tx = @ \o SubSeq(data, 1, n)]]
             ELSE FuturePending(s)
    ELSE FuturePending(s)

(***************************************************************************)
(* handshake() over send_framed / recv_framed (p2p.rs, p2p_transport.rs)   *)
(***************************************************************************)

\* Identities p2p::init can produce: a base58 (ASCII) peer-id string and the
\* NodeId hashed from the same key material.
Identities ==
    { [peer_id |-> <<65>>, node_id |-> <<0, 5>>],
      [peer_id |-> <<66, 67>>, node_id |-> <<0, 1>>] }

P2PStateNone ==
    [some |-> FALSE, peer_id |-> << >>, node_id |-> << >>,
     routing_table |-> RoutingTableNew(<< >>)]

\* *P2P_STATE.lock() = Some(P2PState { .. })
P2PStateNew(id) ==
    [some |-> TRUE, peer_id |-> id.peer_id, node_id |-> id.node_id,
     routing_table |-> RoutingTableNew(id.node_id)]

\* [PeerID Len (4)] [PeerID Bytes] [NodeID]
IdentityPayload(p) == to_le_bytes(Len(p.peer_id)) \o p.peer_id \o p.node_id

HsIdle == [pc |-> "idle", cnt |-> 0, acc |-> << >>, len |-> 0]

HsBegin == [pc |-> "send_len", cnt |-> 0, acc |-> << >>, len |-> 0]

HsEnd(result) == [pc |-> result, cnt |-> 0, acc |-> << >>, len |-> 0]

\* handshake returned after recv_framed had returned Ok(payload): the record
\* keeps that payload (acc) and the size of its frame (len, never 0)
HsEndWith(result, payload) ==
    [pc |-> result, cnt |-> 0, acc |-> payload, len |-> LEN_BYTES + Len(payload)]

\* the order in which the kernel nests its global locks: <<outer, inner>>
LockOrder ==
    { <<"EXECUTOR", "NETWORK_STACK">>, <<"EXECUTOR", "P2P_STATE">>,
      <<"NETWORK_STACK", "BUFFER_POOL">> }

\* what a lock() that cannot be granted leaves behind: it spins on a mutex
\* its own control flow holds, or nests two mutexes against LockOrder
LockFaults == {"SelfDeadlock", "OrderBroken"}

\* spin::Mutex::lock: the guard is alive
Lock(k, mutex) ==
    IF mutex \in k THEN k \cup {"SelfDeadlock"}
    ELSE IF \E h \in k \ LockFaults : <<h, mutex>> \notin LockOrder
    THEN k \cup {mutex, "OrderBroken"}
    ELSE k \cup {mutex}

\* Mutant: the guard outlives its block.
Unlock_Forgotten(k, mutex) == k

\* the guard is dropped at the end of its block or function
Unlock(k, mutex) == k \ {mutex}

\* { let guard = MUTEX.lock(); .. }  a critical section with no await in it
Scoped(k, mutex) == Unlock(Lock(k, mutex), mutex)

\* Mutant: poll_network returns with its guard alive.
PollNetworkLocks_Kept(k) == Scoped(Lock(k, "NETWORK_STACK"), "BUFFER_POOL")

\* net_stack::poll_network: NETWORK_STACK for the whole call, BUFFER_POOL
\* inside it for each push and pop of the device
PollNetworkLocks(k) ==
    Unlock(Scoped(Lock(k, "NETWORK_STACK"), "BUFFER_POOL"), "NETWORK_STACK")

\* p2p::init: *P2P_STATE.lock() = Some(..); then EXECUTOR.lock().spawn(..)
P2PInitLocks(k) == Scoped(Scoped(k, "P2P_STATE"), "EXECUTOR")

InitLockOff == mainHeld = {}

\* network::init and p2p::init have run
InitSysLocks == mainHeld = P2PInitLocks({})

\* the node as one handshake() poll sees it; k are the locks held
Ctx(n) == [h |-> hs[n], s |-> sock[n], p |-> p2p[n], k |-> held[n]]

\* handshake() up to its first await: identity cloned under P2P_STATE
HsStart(st) == [st EXCEPT !.h = HsBegin, !.k = Scoped(@, "P2P_STATE")]

\* Mutant: the routing table is written before the payload is validated.
HsParse_TableTouched(st, payload) ==
    [st EXCEPT !.h = HsEndWith("err", payload),
               !.p.routing_table =
                   add_peer(@, [node_id |-> st.p.node_id, peer_id_str |-> << >>])]

\* handshake() after recv_framed returned Ok(payload): validate, parse,
\* add to the routing table
HsParse(st, payload) ==
    IF Len(payload) < LEN_BYTES + ID_SIZE
    THEN [st EXCEPT !.h = HsEndWith("err", payload)]
    ELSE LET len == from_le_bytes(SubSeq(payload, 1, LEN_BYTES)) IN
         IF Len(payload) < LEN_BYTES + len + ID_SIZE
         THEN [st EXCEPT !.h = HsEndWith("err", payload)]
         ELSE LET remote_peer_id ==
                      from_utf8_lossy(SubSeq(payload, LEN_BYTES + 1, LEN_BYTES + len))
                  remote_node_id ==
                      SubSeq(payload, LEN_BYTES + len + 1, LEN_BYTES + len + ID_SIZE)
                  peer_info == [node_id |-> remote_node_id,
                                peer_id_str |-> remote_peer_id]
              IN  [st EXCEPT !.h = HsEndWith("ok", payload),
                             !.k = Scoped(@, "P2P_STATE"),
                             !.p.routing_table =
                                 IF st.p.some THEN add_peer(@, peer_info) ELSE @]

\* the transport future the handshake is suspended on, polled once
HsFuture(st) ==
    LET payload == IdentityPayload(st.p) IN
    CASE st.h.pc = "send_len" ->
             TcpWritePoll(st.s, SubSeq(to_le_bytes(Len(payload)), st.h.cnt + 1, LEN_BYTES))
      [] st.h.pc = "send_data" ->
             TcpWritePoll(st.s, SubSeq(payload, st.h.cnt + 1, Len(payload)))
      [] st.h.pc = "recv_len" -> TcpReadPoll(st.s, LEN_BYTES - st.h.cnt)
      [] st.h.pc = "recv_data" -> TcpReadPoll(st.s, st.h.len - st.h.cnt)

\* the future returned Ready: the code that runs up to the next await
HsStep(st) ==
    LET r == HsFuture(st)
        h == st.h
        cnt == h.cnt + r.n
        acc == h.acc \o r.bytes
        payload == IdentityPayload(st.p)
        st1 == [st EXCEPT !.s = r.sock]
    IN
    IF r.kind = "err" THEN [st1 EXCEPT !.h = HsEnd("err")]
    ELSE CASE h.pc = "send_len" ->
                  IF cnt < LEN_BYTES THEN [st1 EXCEPT !.h.cnt = cnt]
                  ELSE IF Len(payload) > 0
                  THEN [st1 EXCEPT !.h = [HsIdle EXCEPT !.pc = "send_data"]]
                  ELSE [st1 EXCEPT !.h = [HsIdle EXCEPT !.pc = "recv_len"]]
           [] h.pc = "send_data" ->
                  IF cnt < Len(payload) THEN [st1 EXCEPT !.h.cnt = cnt]
                  ELSE [st1 EXCEPT !.h = [HsIdle EXCEPT !.pc = "recv_len"]]
           [] h.pc = "recv_len" ->
                  IF cnt < LEN_BYTES THEN [st1 EXCEPT !.h.cnt = cnt, !.h.acc = acc]
                  ELSE LET len == from_le_bytes(acc) IN
                       IF FrameTooLong(len) THEN [st1 EXCEPT !.h = HsEnd("err")]
                       ELSE IF len > 0
                       THEN [st1 EXCEPT !.h = [HsIdle EXCEPT !.pc = "recv_data",
                                                             !.len = len]]
                       ELSE HsParse(st1, << >>)
           [] h.pc = "recv_data" ->
                  IF cnt < h.len THEN [st1 EXCEPT !.h.cnt = cnt, !.h.acc = acc]
                  ELSE HsParse(st1, acc)

\* one poll of the handshake() future: it runs until a transport future
\* returns Pending or the handshake returns; every poll of a transport
\* future locks NETWORK_STACK for the length of the call
RECURSIVE RunHandshake(_)
RunHandshake(st) ==
    IF st.h.pc \in {"idle", "ok", "err"} THEN st
    ELSE LET polled_st == [st EXCEPT !.k = Scoped(@, "NETWORK_STACK")] IN
         IF HsFuture(st).kind = "pending" THEN polled_st
         ELSE RunHandshake(HsStep(polled_st))

HsDone(h) == h.pc \in {"ok", "err"}

(***************************************************************************)
(* send_framed on node "A", recv_framed on node "B" (p2p_transport.rs)     *)
(***************************************************************************)

SendBegin == [pc |-> "send_len", cnt |-> 0]

RecvBegin == [pc |-> "recv_len", cnt |-> 0, acc |-> << >>, len |-> 0]

\* payloads handed to send_framed: every length 0 .. MaxPayload, two byte
\* patterns per length
Payloads ==
    { [i \in 1 .. n |-> ((i * k) % 5) + 1] : n \in 0 .. MaxPayload, k \in 1 .. 2 }

\* the TcpWriteFuture send_framed is suspended on, polled once
SendFramedFuture(f, s, data) ==
    IF f.pc = "send_len"
    THEN TcpWritePoll(s, SubSeq(to_le_bytes(Len(data)), f.cnt + 1, LEN_BYTES))
    ELSE TcpWritePoll(s, SubSeq(data, f.cnt + 1, Len(data)))

\* the write future returned Ready(r): send_framed up to its next await
SendFramedStep(f, r, data) ==
    LET sent == f.cnt + r.n IN
    IF r.kind = "err" THEN [pc |-> "err", cnt |-> 0]
    ELSE IF f.pc = "send_len"
    THEN IF sent < LEN_BYTES THEN [f EXCEPT !.cnt = sent]
         ELSE IF 0 < Len(data) THEN [pc |-> "send_data", cnt |-> 0]
         ELSE [pc |-> "ok", cnt |-> 0]
    ELSE IF sent < Len(data) THEN [f EXCEPT !.cnt = sent]
         ELSE [pc |-> "ok", cnt |-> 0]

\* one poll of the send_framed future
RECURSIVE RunSendFramed(_, _, _)
RunSendFramed(f, s, data) ==
    IF f.pc \in {"ok", "err"} THEN [f |-> f, s |-> s]
    ELSE LET r == SendFramedFuture(f, s, data) IN
         IF r.kind = "pending" THEN [f |-> f, s |-> s]
         ELSE RunSendFramed(SendFramedStep(f, r, data), r.sock, data)

\* the TcpReadFuture recv_framed is suspended on, polled once
RecvFramedFuture(f, s) ==
    IF f.pc = "recv_len" THEN TcpReadPoll(s, LEN_BYTES - f.cnt)
    ELSE TcpReadPoll(s, f.len - f.cnt)

\* the read future returned Ready(r): recv_framed up to its next await.
\* When recv_framed returns Ok(buffer), acc is the buffer.
RecvFramedStep(f, r) ==
    LET read == f.cnt + r.n
        acc == f.acc \o r.bytes
    IN
    IF r.kind = "err" THEN [RecvBegin EXCEPT !.pc = "err"]
    ELSE IF f.pc = "recv_len"
    THEN IF read < LEN_BYTES THEN [f EXCEPT !.cnt = read, !.acc = acc]
         ELSE LET len == from_le_bytes(acc) IN
              IF FrameTooLong(len) THEN [RecvBegin EXCEPT !.pc = "err", !.len = len]
              ELSE IF 0 < len THEN [RecvBegin EXCEPT !.pc = "recv_data", !.len = len]
              ELSE [RecvBegin EXCEPT !.pc = "ok"]
    ELSE IF read < f.len THEN [f EXCEPT !.cnt = read, !.acc = acc]
         ELSE [pc |-> "ok", cnt |-> read, acc |-> acc, len |-> f.len]

\* one poll of the recv_framed future
RECURSIVE RunRecvFramed(_, _)
RunRecvFramed(f, s) ==
    IF f.pc \in {"idle", "ok", "err"} THEN [f |-> f, s |-> s]
    ELSE LET r == RecvFramedFuture(f, s) IN
         IF r.kind = "pending" THEN [f |-> f, s |-> s]
         ELSE RunRecvFramed(RecvFramedStep(f, r), r.sock)

InitFrameOff ==
    /\ frData = << >>
    /\ frSend = [pc |-> "idle", cnt |-> 0]
    /\ frRecv = [RecvBegin EXCEPT !.pc = "idle"]

(***************************************************************************)
(* Two nodes running handshake() over a connected stream pair              *)
(***************************************************************************)

InitP2P ==
    /\ sock = [n \in Nodes |-> SocketNew("Closed")]
    /\ p2p = [n \in Nodes |-> P2PStateNone]
    /\ hs = [n \in Nodes |-> HsIdle]
    /\ lpc = "unspawned"
    /\ peerConn = "none"
    /\ peerOut = << >>
    /\ held = [n \in Nodes |-> {}]

\* both nodes initialised (p2p::init), their sockets connected to each other
InitPair ==
    /\ \E a \in Identities, b \in Identities :
           p2p = [n \in Nodes |-> IF n = "A" THEN P2PStateNew(a) ELSE P2PStateNew(b)]
    /\ sock = [n \in Nodes |-> SocketNew("Established")]
    /\ hs = [n \in Nodes |-> HsIdle]
    /\ lpc = "unspawned"
    /\ peerConn = "none"
    /\ peerOut = << >>
    /\ held = [n \in Nodes |-> {}]

\* node n's handshake() future is polled once
PairPoll(n) ==
    /\ ~HsDone(hs[n])
    /\ LET st == RunHandshake(IF hs[n].pc = "idle" THEN HsStart(Ctx(n)) ELSE Ctx(n))
       IN  /\ hs' = [hs EXCEPT ![n] = st.h]
           /\ sock' = [sock EXCEPT ![n] = st.s]
           /\ p2p' = [p2p EXCEPT ![n] = st.p]
           /\ held' = [held EXCEPT ![n] = st.k]
    /\ UNCHANGED <<lpc, peerConn, peerOut>>

\* the stream carries the next byte from n's send buffer to the other
\* node's receive buffer (any segmentation is a run of these steps)
Deliver(n) ==
    /\ sock[n].tx # << >>
    /\ Len(sock[Other(n)].rx) < SOCKET_BUFFER
    /\ sock' = [sock EXCEPT ![n].tx = Tail(@),
                            ![Other(n)].rx = Append(@, Head(sock[n].tx))]
    /\ UNCHANGED <<p2p, hs, lpc, held, peerConn, peerOut>>

NextPair ==
    /\ UNCHANGED <<netVars, execVars, frameVars, kadVars, ipcVars, lockVars, dmaVars>>
    /\ \/ \E n \in Nodes : PairPoll(n)
       \/ \E n \in Nodes : Deliver(n)

PairInit == InitNet /\ InitExecutor /\ InitPair /\ InitFrameOff /\ InitKadOff /\ InitIpcOff /\ InitLockOff /\ InitDmaOff

SpecPair == PairInit /\ [][NextPair]_vars

(***************************************************************************)
(* The listener task of node "A" and a remote peer (p2p.rs, net_stack.rs)  *)
(***************************************************************************)

\* What a remote application may send: a well-formed identity frame, or a
\* frame whose payload is shorter than an identity, shorter than its own
\* string length announces, or empty, or only a length prefix above the
\* frame limit.  It may stop at any byte.
PeerScripts ==
    { Frame(IdentityPayload(id)) : id \in Identities }
        \cup { Frame(<<1, 0, 0, 0, 65>>), Frame(<<3, 0, 0, 0, 65, 66>>), Frame(<< >>) }
        \cup { to_le_bytes(MAX_FRAME + 1) }

\* net_stack::init has put the P2P socket in Listen, p2p::init has set
\* P2P_STATE and spawned the listener
InitListen ==
    /\ \E a \in Identities :
           p2p = [n \in Nodes |-> IF n = "A" THEN P2PStateNew(a) ELSE P2PStateNone]
    /\ sock = [n \in Nodes |-> IF n = "A" THEN SocketNew("Listen") ELSE SocketNew("Closed")]
    /\ hs = [n \in Nodes |-> HsIdle]
    /\ lpc = "start"
    /\ peerConn = "none"
    /\ peerOut = << >>
    /\ held = [n \in Nodes |-> {}]

\* One poll of the p2p_listen_task future by the executor.  It resumes
\* where it was suspended (in the handshake, or in yield_now) and runs to
\* its next Pending: the handshake's transport future, or the YieldNow at
\* the end of the loop iteration.
ListenerPoll ==
    /\ lpc \in {"start", "yield", "handshake"}
    /\ LET \* resumed in the handshake, or at the loop head: the socket state
           \* is read under NETWORK_STACK (p2p.rs:99-113)
           \* the poll runs inside whatever the idle loop holds
           k0 == IF lpc = "handshake" THEN held["A"] \cup mainHeld
                 ELSE Scoped(held["A"] \cup mainHeld, "NETWORK_STACK")
       IN
       IF lpc = "handshake" \/ sock["A"].state \in {"Established", "CloseWait"}
       THEN LET st == RunHandshake(IF lpc = "handshake"
                                   THEN [Ctx("A") EXCEPT !.k = k0]
                                   ELSE HsStart([Ctx("A") EXCEPT !.k = k0]))
            IN  /\ hs' = [hs EXCEPT !["A"] = st.h]
                /\ p2p' = [p2p EXCEPT !["A"] = st.p]
                /\ IF HsDone(st.h)
                   THEN /\ sock' = [sock EXCEPT !["A"] = socket_close(st.s)]
                        /\ held' = [held EXCEPT !["A"] =
                                        Scoped(st.k, "NETWORK_STACK") \ mainHeld]
                        /\ lpc' = "yield"
                   ELSE /\ sock' = [sock EXCEPT !["A"] = st.s]
                        /\ held' = [held EXCEPT !["A"] = st.k \ mainHeld]
                        /\ lpc' = "handshake"
       ELSE /\ sock' = [sock EXCEPT !["A"] =
                           IF @.state = "Closed" THEN socket_listen(@) ELSE @]
            /\ held' = [held EXCEPT !["A"] = k0 \ mainHeld]
            /\ lpc' = "yield"
            /\ UNCHANGED <<hs, p2p>>
    /\ UNCHANGED <<peerConn, peerOut>>

\* SYN from a remote peer
PeerConnectWith(scripts) ==
    /\ peerConn = "none"
    /\ sock["A"].state = "Listen"
    /\ \E script \in scripts : peerOut' = script
    /\ peerConn' = "open"
    /\ sock' = [sock EXCEPT !["A"].state = "SynReceived"]
    /\ UNCHANGED <<p2p, hs, lpc, held>>

PeerConnect == PeerConnectWith(PeerScripts)

\* the ACK that completes the three-way handshake
PeerAckSyn ==
    /\ sock["A"].state = "SynReceived"
    /\ sock' = [sock EXCEPT !["A"].state = "Established"]
    /\ UNCHANGED <<p2p, hs, lpc, held, peerConn, peerOut>>

\* a data byte from the peer is queued in the receive buffer
PeerSend ==
    /\ peerConn = "open"
    /\ peerOut # << >>
    /\ sock["A"].state \in {"Established", "FinWait1", "FinWait2"}
    /\ Len(sock["A"].rx) < SOCKET_BUFFER
    /\ sock' = [sock EXCEPT !["A"].rx = Append(@, Head(peerOut))]
    /\ peerOut' = Tail(peerOut)
    /\ UNCHANGED <<p2p, hs, lpc, held, peerConn>>

\* the peer closes its sending half: FIN, with or without bytes left unsent
PeerFin ==
    /\ peerConn = "open"
    /\ sock["A"].state \in {"Established", "FinWait1", "FinWait2"}
    /\ sock' = [sock EXCEPT !["A"].state =
                    CASE @ = "Established" -> "CloseWait"
                      [] @ = "FinWait1" -> "Closing"
                      [] @ = "FinWait2" -> "TimeWait"]
    /\ peerConn' = "fin"
    /\ peerOut' = << >>
    /\ UNCHANGED <<p2p, hs, lpc, held>>

\* the peer acknowledges data of the send buffer
PeerAckData ==
    /\ sock["A"].tx # << >>
    /\ sock["A"].state \in {"Established", "CloseWait", "FinWait1", "Closing", "LastAck"}
    /\ sock' = [sock EXCEPT !["A"].tx = Tail(@)]
    /\ UNCHANGED <<p2p, hs, lpc, held, peerConn, peerOut>>

\* the peer acknowledges our FIN (sent once the send buffer is drained)
PeerAckFin ==
    /\ sock["A"].tx = << >>
    /\ sock["A"].state \in {"FinWait1", "Closing", "LastAck"}
    /\ sock' = [sock EXCEPT !["A"].state =
                    CASE @ = "FinWait1" -> "FinWait2"
                      [] @ = "Closing" -> "TimeWait"
                      [] @ = "LastAck" -> "Closed"]
    /\ peerConn' = IF sock["A"].state = "LastAck" THEN "none" ELSE peerConn
    /\ UNCHANGED <<p2p, hs, lpc, held, peerOut>>

\* RST from the peer: the socket is Closed (a half-open one listens again);
\* the receive buffer keeps its bytes until the next listen()
PeerRst ==
    /\ peerConn # "none"
    /\ sock["A"].state \notin {"Closed", "Listen", "TimeWait"}
    /\ sock' = [sock EXCEPT !["A"].state =
                    IF @ = "SynReceived" THEN "Listen" ELSE "Closed"]
    /\ peerConn' = "none"
    /\ peerOut' = << >>
    /\ UNCHANGED <<p2p, hs, lpc, held>>

\* the TIME-WAIT timer of the socket expires in Interface::poll
TimeWaitExpire ==
    /\ sock["A"].state = "TimeWait"
    /\ sock' = [sock EXCEPT !["A"].state = "Closed"]
    /\ peerConn' = "none"
    /\ peerOut' = << >>
    /\ UNCHANGED <<p2p, hs, lpc, held>>

NextListen ==
    /\ UNCHANGED <<netVars, execVars, frameVars, kadVars, ipcVars, lockVars, dmaVars>>
    /\ \/ ListenerPoll
       \/ PeerConnect
       \/ PeerAckSyn
       \/ PeerSend
       \/ PeerFin
       \/ PeerAckData
       \/ PeerAckFin
       \/ PeerRst
       \/ TimeWaitExpire

\* Remote peers that complete the handshake: two NodeIds of one bucket, one
\* of them under two peer-id strings (a peer that comes back renamed).
RejoinScripts ==
    { Frame(IdentityPayload(id)) :
        id \in { [peer_id |-> <<66, 67>>, node_id |-> <<0, 1>>],
                 [peer_id |-> <<68>>, node_id |-> <<0, 1>>],
                 [peer_id |-> <<69>>, node_id |-> <<0, 3>>] } }

NextRejoin ==
    /\ UNCHANGED <<netVars, execVars, frameVars, kadVars, ipcVars, lockVars, dmaVars>>
    /\ \/ ListenerPoll
       \/ PeerConnectWith(RejoinScripts)
       \/ PeerAckSyn
       \/ PeerSend
       \/ PeerFin
       \/ PeerAckData
       \/ PeerAckFin
       \/ PeerRst
       \/ TimeWaitExpire

ListenInit == InitNet /\ InitExecutor /\ InitListen /\ InitFrameOff /\ InitKadOff /\ InitIpcOff /\ InitLockOff /\ InitDmaOff

SpecListen == ListenInit /\ [][NextListen]_vars

SpecRejoin == ListenInit /\ [][NextRejoin]_vars

(***************************************************************************)
(* The idle loop: poll_network, then one executor pass over the listener   *)
(* and any other tasks (main.rs:211-232)                                   *)
(***************************************************************************)

\* the Task p2p::init spawns first
ListenerTask == 1

\* p2p::init has run: the listener is the one task of the queue
InitSysExecutor ==
    /\ task_queue = <<ListenerTask>>
    /\ pcExec = "idle"
    /\ tasks_to_run = 0
    /\ executorLock = FALSE
    /\ nTasks = 1
    /\ current = NoTask
    /\ passStart = << >>
    /\ polled = << >>
    /\ pendingSet = {}
    /\ finished = {}
    /\ spawnAsked = {}

SysInit == InitNet /\ InitSysExecutor /\ InitListen /\ InitFrameOff /\ InitKadOff /\ InitIpcOff /\ InitSysLocks /\ InitDmaOff

\* another task is spawned between two passes (the model keeps one such
\* task next to the listener at a time)
SysSpawn ==
    /\ task_queue = <<ListenerTask>>
    /\ ExecSpawn
    /\ mainHeld' = Scoped(mainHeld, "EXECUTOR")
    /\ UNCHANGED p2pVars

SysPollBegin ==
    /\ ExecPollBegin
    /\ mainHeld' = Lock(mainHeld, "EXECUTOR")
    /\ UNCHANGED p2pVars

\* the loop body of run_ready_tasks with the listener at the head of the
\* queue: its future is polled once; p2p_listen_task never returns, so the
\* poll answers Pending and the task is pushed back
SysPollListener ==
    /\ pcExec = "pass"
    /\ tasks_to_run > 0
    /\ task_queue # << >>
    /\ Head(task_queue) = ListenerTask
    /\ ListenerPoll
    /\ polled' = Append(polled, ListenerTask)
    /\ task_queue' = Requeue(Tail(task_queue), ListenerTask)
    /\ pendingSet' = pendingSet \cup {ListenerTask}
    /\ tasks_to_run' = Remaining(tasks_to_run, task_queue')
    /\ UNCHANGED <<pcExec, executorLock, nTasks, current, passStart, finished, spawnAsked,
                   mainHeld>>

\* the loop body with another task at the head: it answers Ready or Pending
SysPollOther ==
    /\ task_queue # << >>
    /\ Head(task_queue) # ListenerTask
    /\ ExecPollStep
    /\ pcExec' = "pass"
    /\ UNCHANGED <<p2pVars, mainHeld>>

SysPollEnd ==
    /\ ExecPollEnd
    /\ mainHeld' = Unlock(mainHeld, "EXECUTOR")
    /\ UNCHANGED p2pVars

\* the remote peers of this scenario send the identity frame of one node,
\* or any part of it, or a length prefix above the frame limit and nothing
\* after it
SysScripts ==
    { Frame(IdentityPayload(id)) : id \in {[peer_id |-> <<66, 67>>, node_id |-> <<0, 1>>]} }
        \cup { to_le_bytes(MAX_FRAME + 1) }

\* net_stack::poll_network, called by the idle loop between two passes:
\* whatever the remote peer and the TCP state machine do to the P2P socket
SysNetwork ==
    /\ pcExec = "idle"
    /\ \/ PeerConnect /\ peerOut' \in SysScripts
       \/ PeerAckSyn
       \/ PeerSend
       \/ PeerFin
       \/ PeerAckData
       \/ PeerAckFin
       \/ PeerRst
       \/ TimeWaitExpire
    /\ mainHeld' = PollNetworkLocks(mainHeld)
    /\ UNCHANGED execVars

NextSys ==
    /\ UNCHANGED <<netVars, frameVars, kadVars, ipcVars, dmaVars>>
    /\ \/ SysSpawn
       \/ SysPollBegin
       \/ SysPollListener
       \/ SysPollOther
       \/ SysPollEnd
       \/ SysNetwork

SpecSys == SysInit /\ [][NextSys]_vars

(***************************************************************************)
(* One framed message over a connected stream pair                         *)
(***************************************************************************)

\* a connected pair; "A" is about to call send_framed(data), "B" recv_framed
InitFrame ==
    /\ frData \in Payloads
    /\ frSend = SendBegin
    /\ frRecv = RecvBegin
    /\ sock = [n \in Nodes |-> SocketNew("Established")]
    /\ p2p = [n \in Nodes |-> P2PStateNone]
    /\ hs = [n \in Nodes |-> HsIdle]
    /\ lpc = "unspawned"
    /\ peerConn = "none"
    /\ peerOut = << >>
    /\ held = [n \in Nodes |-> {}]

FrameInit == InitNet /\ InitExecutor /\ InitFrame /\ InitKadOff /\ InitIpcOff /\ InitLockOff /\ InitDmaOff

\* the send_framed future of "A" is polled once
FrameSendPoll ==
    /\ frSend.pc \in {"send_len", "send_data"}
    /\ LET st == RunSendFramed(frSend, sock["A"], frData)
       IN  /\ frSend' = st.f
           /\ sock' = [sock EXCEPT !["A"] = st.s]
    /\ UNCHANGED <<frData, frRecv, p2p, hs, lpc, held, peerConn, peerOut>>

\* the recv_framed future of "B" is polled once
FrameRecvPoll ==
    /\ frRecv.pc \in {"recv_len", "recv_data"}
    /\ LET st == RunRecvFramed(frRecv, sock["B"])
       IN  /\ frRecv' = st.f
           /\ sock' = [sock EXCEPT !["B"] = st.s]
    /\ UNCHANGED <<frData, frSend, p2p, hs, lpc, held, peerConn, peerOut>>

\* the stream carries one more byte from "A" to "B"
FrameDeliver ==
    /\ Deliver("A")
    /\ UNCHANGED frameVars

NextFrame ==
    /\ UNCHANGED <<netVars, execVars, kadVars, ipcVars, lockVars, dmaVars>>
    /\ \/ FrameSendPoll
       \/ FrameRecvPoll
       \/ FrameDeliver

SpecFrame == FrameInit /\ [][NextFrame]_vars

\* nothing is in flight and no poll of either future makes progress
FrameQuiescent ==
    /\ sock["A"].tx = << >>
    /\ RunSendFramed(frSend, sock["A"], frData).f = frSend
    /\ RunRecvFramed(frRecv, sock["B"]).f = frRecv

\* C11: framing round trip.  send_framed never fails on a connected stream;
\* recv_framed never returns Err; when it returns Ok its buffer is byte for
\* byte the payload given to send_framed, and once the sender is done too
\* nothing of the frame is left in the stream; the exchange cannot come to
\* rest before both have returned Ok, whatever the chunks and the Pending
\* polls in between.
C11_FramingRoundTrip ==
    /\ frSend.pc # "err"
    /\ frRecv.pc # "err"
    /\ frRecv.pc = "ok" =>
          /\ frRecv.acc = frData
          /\ frSend.pc = "ok"
          /\ \A n \in Nodes : sock[n].rx = << >> /\ sock[n].tx = << >>
    /\ FrameQuiescent => (frSend.pc = "ok" /\ frRecv.pc = "ok")

\* a payload too long for one send buffer has been received whole
C11_Witness ==
    /\ frRecv.pc = "ok"
    /\ frSend.pc = "ok"
    /\ Len(frData) + LEN_BYTES > SOCKET_BUFFER
    /\ frRecv.acc = frData

(***************************************************************************)
(* The framed exchange on a stream that the remote end may reset           *)
(***************************************************************************)

\* the remote end aborts the connection: its socket is Closed, and the RST
\* closes the socket of "A" (buffers keep their bytes until the next listen)
StreamReset ==
    /\ sock["A"].state = "Established"
    /\ sock' = [n \in Nodes |-> [sock[n] EXCEPT !.state = "Closed"]]
    /\ UNCHANGED <<p2p, hs, lpc, held, peerConn, peerOut, frameVars>>

\* bytes travel only while the connection exists
FrameDeliverOpen ==
    /\ sock["A"].state = "Established"
    /\ FrameDeliver

NextFrameClose ==
    /\ UNCHANGED <<netVars, execVars, kadVars, ipcVars, lockVars, dmaVars>>
    /\ \/ FrameSendPoll
       \/ FrameRecvPoll
       \/ FrameDeliverOpen
       \/ StreamReset

SpecFrameClose == FrameInit /\ [][NextFrameClose]_vars

\* C13: send_framed fails on closure.  When the socket has been closed
\* before send_framed has handed over all its bytes, the next poll of
\* send_framed returns Err.
C13_SendFailsOnClosure ==
    (frSend.pc \in {"send_len", "send_data"} /\ sock["A"].state = "Closed")
        => RunSendFramed(frSend, sock["A"], frData).f.pc = "err"

(***************************************************************************)
(* recv_framed on node "B" fed with raw bytes by the remote end            *)
(***************************************************************************)

\* length prefixes a remote end may declare: around the 1 MiB limit, far
\* above it, and small ones
DeclaredLengths ==
    {0, 3, MAX_FRAME - 1, MAX_FRAME, MAX_FRAME + 1, 2 * MAX_FRAME, 16777216, 2147483647}

\* what the remote end writes: a length prefix and a few bytes after it
RawStreams ==
    { to_le_bytes(n) \o rest : n \in DeclaredLengths,
                               rest \in {<< >>, <<7, 8, 9>>, <<9, 8, 7, 6, 5>>} }

\* frData is what the remote end has written to the stream (all of it is in
\* its send buffer); "B" is about to call recv_framed
InitRecv ==
    /\ frData \in RawStreams
    /\ frSend = [pc |-> "idle", cnt |-> 0]
    /\ frRecv = RecvBegin
    /\ sock = [n \in Nodes |-> IF n = "A" THEN [SocketNew("Established") EXCEPT !.tx = frData]
                               ELSE SocketNew("Established")]
    /\ p2p = [n \in Nodes |-> P2PStateNone]
    /\ hs = [n \in Nodes |-> HsIdle]
    /\ lpc = "unspawned"
    /\ peerConn = "none"
    /\ peerOut = << >>
    /\ held = [n \in Nodes |-> {}]

RecvInit == InitNet /\ InitExecutor /\ InitRecv /\ InitKadOff /\ InitIpcOff /\ InitLockOff /\ InitDmaOff

NextRecv ==
    /\ UNCHANGED <<netVars, execVars, kadVars, ipcVars, lockVars, dmaVars>>
    /\ \/ FrameRecvPoll
       \/ FrameDeliver

SpecRecv == RecvInit /\ [][NextRecv]_vars

\* the length the stream's first four bytes declare
Declared == from_le_bytes(SubSeq(frData, 1, LEN_BYTES))

\* the bytes of the stream recv_framed has not read
Unread == sock["B"].rx \o sock["A"].tx

\* C12: over-limit frames.  recv_framed sizes its buffer (and goes on to
\* read payload) only for a declared length of at most 1,048,576; once the
\* four prefix bytes are read, a larger declared length has made it return
\* Err with every byte after the prefix still unread, and a declared length
\* of exactly 1,048,576 has been accepted; an over-limit stream cannot come
\* to rest before recv_framed has returned Err.
C12_OverLimitRejected ==
    /\ frRecv.pc \in {"recv_data", "ok"} => Declared <= 1048576
    /\ (frRecv.pc # "recv_len" /\ Declared > 1048576) =>
          /\ frRecv.pc = "err"
          /\ frRecv.acc = << >>
          /\ Unread = SubSeq(frData, LEN_BYTES + 1, Len(frData))
    /\ (frRecv.pc # "recv_len" /\ Declared = 1048576) =>
          /\ frRecv.pc = "recv_data"
          /\ frRecv.len = 1048576
    /\ (Declared > 1048576 /\ sock["A"].tx = << >>
           /\ RunRecvFramed(frRecv, sock["B"]).f = frRecv) => frRecv.pc = "err"

\* an over-limit prefix followed by payload bytes has been rejected
C12_Witness ==
    /\ Declared = 1048577
    /\ frRecv.pc = "err"
    /\ Len(Unread) = 3

(***************************************************************************)
(* recv_framed on node "B" while the remote end closes or resets           *)
(***************************************************************************)

\* the remote end calls close(): its FIN follows the bytes still in its
\* send buffer
RemoteClose ==
    /\ sock["A"].state = "Established"
    /\ sock' = [sock EXCEPT !["A"] = socket_close(@)]
    /\ UNCHANGED <<p2p, hs, lpc, held, peerConn, peerOut, frameVars>>

\* the FIN of the remote end arrives behind its last byte: "B" is
\* half-closed
FinArrives ==
    /\ sock["A"].state = "FinWait1"
    /\ sock["A"].tx = << >>
    /\ sock["B"].state = "Established"
    /\ sock' = [sock EXCEPT !["A"].state = "FinWait2", !["B"].state = "CloseWait"]
    /\ UNCHANGED <<p2p, hs, lpc, held, peerConn, peerOut, frameVars>>

\* bytes travel until the remote end's FIN or RST
RecvDeliverOpen ==
    /\ sock["A"].state \in {"Established", "FinWait1"}
    /\ sock["B"].state = "Established"
    /\ FrameDeliver

NextRecvClose ==
    /\ UNCHANGED <<netVars, execVars, kadVars, ipcVars, lockVars, dmaVars>>
    /\ \/ FrameRecvPoll
       \/ RecvDeliverOpen
       \/ RemoteClose
       \/ FinArrives
       \/ StreamReset

SpecRecvClose == RecvInit /\ [][NextRecvClose]_vars

\* C28: recv_framed reports a closed connection.  Once the socket is in
\* CloseWait or Closed no further byte will arrive, so the next poll of a
\* recv_framed that is still waiting must return: Ok if the receive buffer
\* holds the rest of the frame, Err otherwise.
C28_RecvFailsOnClosure ==
    (frRecv.pc \in {"recv_len", "recv_data"} /\ sock["B"].state \in {"CloseWait", "Closed"})
        => RunRecvFramed(frRecv, sock["B"]).f.pc \in {"ok", "err"}

(***************************************************************************)
(* Calls on a routing table                                                *)
(***************************************************************************)

\* routing_table.add_peer(peer); addRet is what the KBucket::add inside
\* returned
AddPeer(peer) ==
    /\ Len(addLog) < MaxAdds
    /\ rt' = add_peer(rt, peer)
    /\ addRet' = LET idx == get_bucket_index(rt, distance(rt.local_id, peer.node_id))
                 IN  IF idx \notin DOMAIN rt.buckets THEN "none"
                     ELSE IF KBucketAddAccepts(rt.buckets[idx], peer) THEN "true"
                     ELSE "false"
    /\ addLog' = Append(addLog, peer)
    /\ findArgs' = [called |-> FALSE, target |-> << >>, count |-> 0]
    /\ findRes' = << >>
    /\ UNCHANGED <<dArgs, dRes, idxArg, idxRes>>

\* routing_table.find_closest(&target, count). It reads the table only, so
\* a second call before the next add_peer reaches nothing new.
FindClosest(target, count) ==
    /\ ~findArgs.called
    /\ findArgs' = [called |-> TRUE, target |-> target, count |-> count]
    /\ findRes' = find_closest(rt, target, count)
    /\ UNCHANGED <<rt, addLog, addRet, dArgs, dRes, idxArg, idxRes>>

NextTable ==
    /\ UNCHANGED <<netVars, execVars, p2pVars, frameVars, ipcVars, lockVars, dmaVars>>
    /\ \/ \E peer \in TablePeers : AddPeer(peer)
       \/ \E target \in TableTargets, count \in 0 .. (K_BUCKET_SIZE + 1) :
              FindClosest(target, count)

TableInit == InitNet /\ InitExecutor /\ InitP2P /\ InitFrameOff /\ InitKadOff /\ InitIpcOff /\ InitLockOff /\ InitDmaOff

SpecTable == TableInit /\ [][NextTable]_vars

\* byte values of the NodeIds handed to distance()
DistBytes == {0, 1, 128, 255}

\* the NodeIds handed to distance()
DistIds == [1 .. ID_SIZE -> DistBytes]

\* a.distance(&b) and b.distance(&a)
DistanceCall(a, b) ==
    /\ dArgs' = <<a, b>>
    /\ dRes' = <<distance(a, b), distance(b, a)>>
    /\ UNCHANGED <<rt, addLog, addRet, findArgs, findRes, idxArg, idxRes>>

NextDistance ==
    /\ UNCHANGED <<netVars, execVars, p2pVars, frameVars, ipcVars, lockVars, dmaVars>>
    /\ \E a \in DistIds, b \in DistIds : DistanceCall(a, b)

SpecDistance == TableInit /\ [][NextDistance]_vars

\* byte values of the distances handed to get_bucket_index: every count of
\* leading zero bits of a byte occurs
IndexBytes == {0, 1, 2, 3, 4, 7, 8, 15, 16, 31, 32, 63, 64, 127, 128, 255}

\* self.get_bucket_index(&dist)
BucketIndexCall(dist) ==
    /\ idxArg' = dist
    /\ idxRes' = get_bucket_index(rt, dist)
    /\ UNCHANGED <<rt, addLog, addRet, findArgs, findRes, dArgs, dRes>>

NextBucketIndex ==
    /\ UNCHANGED <<netVars, execVars, p2pVars, frameVars, ipcVars, lockVars, dmaVars>>
    /\ \E dist \in [1 .. ID_SIZE -> IndexBytes] : BucketIndexCall(dist)

SpecBucketIndex == TableInit /\ [][NextBucketIndex]_vars

(***************************************************************************)
(* Calls on the IPC manager                                                *)
(***************************************************************************)

\* IpcManager::create_endpoint
CreateEndpoint ==
    IF \E i \in Slots : endpoints[i] = << >>
    THEN LET i == CHOOSE k \in Slots :
                     endpoints[k] = << >> /\ \A j \in Slots : j < k => endpoints[j] # << >>
         IN  /\ endpoints' = [endpoints EXCEPT ![i] = <<EndpointNew(nextEndpointId)>>]
             /\ nextEndpointId' = nextEndpointId + 1
             /\ ipcCount' = ipcCount + 1
             /\ ipcRet' = [op |-> "create", slot |-> i, res |-> "Ok", msg |-> << >>]
             /\ UNCHANGED <<accepted, received>>
    ELSE /\ ipcRet' = [op |-> "create", slot |-> 0, res |-> "InvalidEndpoint", msg |-> << >>]
         /\ UNCHANGED <<endpoints, ipcCount, nextEndpointId, accepted, received>>

\* the number of messages accepted so far
RECURSIVE AcceptedUpTo(_)
AcceptedUpTo(i) == IF i \notin Slots THEN 0 ELSE Len(accepted[i]) + AcceptedUpTo(i + 1)

\* IpcManager::send(endpoint_slot, msg)
IpcSend(slot, msg) ==
    /\ AcceptedUpTo(0) < MaxSends
    /\ IF SlotValid(slot)
       THEN LET s == slot
                r == EndpointSend(endpoints[s][1], msg)
            IN  /\ endpoints' = [endpoints EXCEPT ![s] = <<r.ep>>]
                /\ ipcRet' = [op |-> "send", slot |-> slot, res |-> r.res, msg |-> <<msg>>]
                /\ accepted' = IF r.res = "Ok"
                               THEN [accepted EXCEPT ![s] = Append(@, msg)]
                               ELSE accepted
       ELSE /\ ipcRet' = [op |-> "send", slot |-> slot, res |-> "InvalidEndpoint", msg |-> <<msg>>]
            /\ UNCHANGED <<endpoints, accepted>>
    /\ UNCHANGED <<ipcCount, nextEndpointId, received>>

\* IpcManager::receive(endpoint_slot)
IpcReceive(slot) ==
    /\ IF SlotValid(slot)
       THEN LET s == slot
                r == EndpointReceive(endpoints[s][1])
            IN  /\ endpoints' = [endpoints EXCEPT ![s] = <<r.ep>>]
                /\ ipcRet' = [op |-> "receive", slot |-> slot, res |-> r.res, msg |-> r.msg]
                /\ received' = IF r.res = "Ok"
                               THEN [received EXCEPT ![s] = Append(@, r.msg[1])]
                               ELSE received
       ELSE /\ ipcRet' = [op |-> "receive", slot |-> slot, res |-> "InvalidEndpoint", msg |-> << >>]
            /\ UNCHANGED <<endpoints, received>>
    /\ UNCHANGED <<ipcCount, nextEndpointId, accepted>>

NextIpc ==
    /\ UNCHANGED <<netVars, execVars, p2pVars, frameVars, kadVars, lockVars, dmaVars>>
    /\ \/ CreateEndpoint
       \/ \E slot \in 0 .. MAX_ENDPOINTS, msg \in Messages : IpcSend(slot, msg)
       \/ \E slot \in 0 .. MAX_ENDPOINTS : IpcReceive(slot)

IpcInit == InitNet /\ InitExecutor /\ InitP2P /\ InitFrameOff /\ InitKadOff /\ InitIpcOff /\ InitLockOff /\ InitDmaOff

SpecIpc == IpcInit /\ [][NextIpc]_vars

(***************************************************************************)
(* IPC properties                                                          *)
(***************************************************************************)

C38_RingConsistency ==
    /\ ipcRet.res # "Panic"
    /\ \A s \in Slots : endpoints[s] # << >> =>
          LET ep == endpoints[s][1]
              live == { (ep.head + k) % ENDPOINT_QUEUE_SIZE : k \in 0 .. (ep.count - 1) }
          IN  /\ ep.count \in 0 .. ENDPOINT_QUEUE_SIZE
              /\ ep.head \in DOMAIN ep.queue
              /\ ep.tail = (ep.head + ep.count) % ENDPOINT_QUEUE_SIZE
              /\ { i \in DOMAIN ep.queue : ep.queue[i] # << >> } = live
              /\ Cardinality({ i \in DOMAIN ep.queue : ep.queue[i] # << >> }) = ep.count
              /\ ep.count > 0 => EndpointReceive(ep).res = "Ok"

\* C38 witness: a ring that has wrapped - the write position is below the
\* read position - with messages on both sides of the wrap, after a receive.
C38_Witness ==
    \E s \in Slots :
        /\ endpoints[s] # << >>
        /\ endpoints[s][1].tail < endpoints[s][1].head
        /\ endpoints[s][1].count = 2
        /\ received[s] # << >>
        /\ ipcRet.res = "Ok"

\* C23: send on an endpoint that holds ENDPOINT_QUEUE_SIZE messages (16 in
\* the source) returns QueueFull, receive on an endpoint that holds none
\* returns QueueEmpty, and send/receive on a slot that is out of range or
\* not created returns InvalidEndpoint; in each case no endpoint changes
\* (head, tail, count and queued messages stay as they were).
C23_BackpressureErrors ==
    [][LET op == ipcRet'.op
           slot == ipcRet'.slot
       IN  /\ (op = "send" /\ SlotValid(slot)
                 /\ endpoints[slot][1].count = ENDPOINT_QUEUE_SIZE)
                 => (ipcRet'.res = "QueueFull" /\ endpoints' = endpoints)
           /\ (op = "receive" /\ SlotValid(slot) /\ endpoints[slot][1].count = 0)
                 => (ipcRet'.res = "QueueEmpty" /\ endpoints' = endpoints)
           /\ (op \in {"send", "receive"} /\ ~SlotValid(slot))
                 => (ipcRet'.res = "InvalidEndpoint" /\ endpoints' = endpoints)
      ]_vars

\* C23 witness: send was refused by a full endpoint whose ring had wrapped
\* while the other slot was never created.
C23_Witness ==
    /\ ipcRet.op = "send"
    /\ ipcRet.res = "QueueFull"
    /\ endpoints[ipcRet.slot][1].tail # 0
    /\ \E s \in Slots : endpoints[s] = << >>

(***************************************************************************)
(* Routing table properties                                                *)
(***************************************************************************)

\* the bucket add_peer puts a NodeId into
BucketOf(id) == get_bucket_index(rt, distance(rt.local_id, id))

\* C17: after any sequence of add_peer / KBucket::add calls every bucket
\* holds at most K_BUCKET_SIZE entries (20 in the source) and no two entries
\* of a bucket have the same NodeId.
C17_BucketCapacityDistinct ==
    \A b \in DOMAIN rt.buckets :
        /\ Len(rt.buckets[b]) <= K_BUCKET_SIZE
        /\ \A i, j \in 1 .. Len(rt.buckets[b]) :
               rt.buckets[b][i].node_id = rt.buckets[b][j].node_id => i = j

\* C17 witness: a full bucket has just refused a further NodeId, and before
\* that a NodeId was offered twice.
C17_Witness ==
    /\ addRet = "false"
    /\ \E b \in DOMAIN rt.buckets : Len(rt.buckets[b]) = K_BUCKET_SIZE
    /\ \E i, j \in 1 .. Len(addLog) : i < j /\ addLog[i].node_id = addLog[j].node_id

\* the add_peer calls so far had pairwise distinct NodeIds that all map to
\* one bucket
SameBucketDistinct(log) ==
    /\ log # << >>
    /\ \A i, j \in 1 .. Len(log) : log[i].node_id = log[j].node_id => i = j
    /\ \A i \in 1 .. Len(log) : BucketOf(log[i].node_id) = BucketOf(log[1].node_id)

\* C18: while peers with pairwise distinct NodeIds of one bucket are
\* inserted, the bucket holds the first K_BUCKET_SIZE of them in insertion
\* order; the add past K_BUCKET_SIZE (the 21st in the source) returns false
\* and leaves the table as it was, the earlier ones return true.
C18_BucketOverflow ==
    [][((\E peer \in TablePeers : AddPeer(peer)) /\ SameBucketDistinct(addLog'))
         => /\ rt'.buckets[BucketOf(addLog'[1].node_id)]
                  = SubSeq(addLog', 1, Min(Len(addLog'), K_BUCKET_SIZE))
            /\ Len(addLog') > K_BUCKET_SIZE => (addRet' = "false" /\ rt' = rt)
            /\ Len(addLog') <= K_BUCKET_SIZE => addRet' = "true"]_vars

\* C18 witness: K_BUCKET_SIZE + 1 distinct NodeIds of one bucket were
\* inserted and the last one was refused.
C18_Witness ==
    /\ SameBucketDistinct(addLog)
    /\ Len(addLog) = K_BUCKET_SIZE + 1
    /\ addRet = "false"
    /\ Len(rt.buckets[BucketOf(addLog[1].node_id)]) = K_BUCKET_SIZE

\* a NodeId read as a big-endian number of ID_SIZE bytes
RECURSIVE BigEndianValue(_)
BigEndianValue(id) ==
    IF id = << >> THEN 0
    ELSE BigEndianValue(SubSeq(id, 1, Len(id) - 1)) * 256 + id[Len(id)]

\* distance(peer, target) as a number
DistanceTo(peer, target) == BigEndianValue(distance(peer.node_id, target))

\* C19: find_closest(target, k) returns min(k, number of peers in the table)
\* peers of the table, no peer left out is closer to target than a returned
\* one, and the list is in strictly ascending order of distance(peer, target)
\* compared as big-endian numbers.
C19_FindClosest ==
    findArgs.called =>
        LET all == Entries(rt)
            t == findArgs.target
        IN  /\ Len(findRes) = Min(findArgs.count, Len(all))
            /\ SeqToSet(findRes) \subseteq SeqToSet(all)
            /\ \A e \in SeqToSet(all) \ SeqToSet(findRes) :
                   \A i \in 1 .. Len(findRes) :
                       DistanceTo(findRes[i], t) < DistanceTo(e, t)
            /\ \A i \in 1 .. (Len(findRes) - 1) :
                   DistanceTo(findRes[i], t) < DistanceTo(findRes[i + 1], t)

\* C19 witness: find_closest returned fewer peers than the table holds, from
\* more than one bucket, in an order that is not the order of the buckets.
C19_Witness ==
    /\ findArgs.called
    /\ Len(findRes) >= 2
    /\ Len(findRes) < Len(Entries(rt))
    /\ findRes # SubSeq(Entries(rt), 1, Len(findRes))
    /\ \E i, j \in 1 .. Len(findRes) :
           BucketOf(findRes[i].node_id) # BucketOf(findRes[j].node_id)

\* the all-zero NodeId
ZeroId == [i \in 1 .. ID_SIZE |-> 0]

\* C20: distance(a, b) = distance(b, a), distance(a, a) is the all-zero id,
\* and distance(a, b) is all-zero only when a = b.
C20_DistanceSymmetryIdentity ==
    dArgs # << >> =>
        /\ dRes[1] = dRes[2]
        /\ dArgs[1] = dArgs[2] => dRes[1] = ZeroId
        /\ dRes[1] = ZeroId => dArgs[1] = dArgs[2]

\* C20 witness: distance() was called on two NodeIds that differ in one
\* byte and agree in another.
C20_Witness ==
    /\ dArgs # << >>
    /\ dArgs[1] # dArgs[2]
    /\ \E i \in 1 .. ID_SIZE : dRes[1][i] = 0 /\ dArgs[1][i] # 0
    /\ \E i \in 1 .. ID_SIZE : dRes[1][i] # 0

\* the number of leading zero bits of a non-zero NodeId, from its value as
\* a big-endian number of ID_SIZE * 8 bits
LeadingZeroBits(id) ==
    LET v == BigEndianValue(id)
    IN  CHOOSE z \in 0 .. (ID_SIZE * 8 - 1) :
            2 ^ (ID_SIZE * 8 - 1 - z) <= v /\ v < 2 ^ (ID_SIZE * 8 - z)

\* C21: for every non-zero distance d, get_bucket_index(d) is the number of
\* leading zero bits of d, a valid bucket index that the cap at the last
\* index does not change.
C21_BucketDeterminism ==
    (idxArg # << >> /\ idxArg # ZeroId) =>
        /\ idxRes = LeadingZeroBits(idxArg)
        /\ idxRes \in DOMAIN rt.buckets

\* C21 witness: get_bucket_index was called on a distance whose first byte
\* is zero and whose second byte has leading zero bits of its own.
C21_Witness ==
    /\ idxArg # << >>
    /\ idxArg[1] = 0
    /\ idxArg[2] \in 1 .. 127
    /\ idxRes > 8

\* C29: add_peer / KBucket::add of a peer whose NodeId is already in its
\* bucket returns true, also when the bucket is full; the bucket keeps its
\* size, that peer is last with the PeerInfo just supplied, the other
\* entries keep their relative order, and no other bucket changes.
C29_ReAddMovesToTail ==
    [][(Len(addLog') = Len(addLog) + 1) =>
         LET peer == addLog'[Len(addLog')]
             b == BucketOf(peer.node_id)
             old == rt.buckets[b]
             new == rt'.buckets[b]
         IN  (\E i \in 1 .. Len(old) : old[i].node_id = peer.node_id) =>
                 /\ addRet' = "true"
                 /\ Len(new) = Len(old)
                 /\ new[Len(new)] = peer
                 /\ SubSeq(new, 1, Len(new) - 1)
                       = SelectSeq(old, LAMBDA e : e.node_id # peer.node_id)
                 /\ \A c \in DOMAIN rt.buckets \ {b} : rt'.buckets[c] = rt.buckets[c]
      ]_vars

\* C29 witness: a full bucket was offered its first entry again, with
\* another peer_id_str; that entry is now last, with the new string.
C29_Witness ==
    /\ addRet = "true"
    /\ Len(addLog) >= 3
    /\ LET peer == addLog[Len(addLog)] IN
       \E i, j \in 1 .. (Len(addLog) - 1) :
          /\ i < j
          /\ addLog[i].node_id = peer.node_id
          /\ addLog[i].peer_id_str # peer.peer_id_str
          /\ addLog[j].node_id # peer.node_id
          /\ Len(rt.buckets[BucketOf(peer.node_id)]) = K_BUCKET_SIZE
          /\ rt.buckets[BucketOf(peer.node_id)] = <<addLog[j], peer>>

\* C36: routing-table placement.  After any sequence of add_peer calls every
\* peer stored in bucket i has get_bucket_index(distance(local_id, node_id))
\* = i, no NodeId occurs twice in the whole table, and no add_peer makes
\* the number of stored peers smaller.
C36_TablePlacement ==
    /\ [](/\ \A i \in DOMAIN rt.buckets : \A k \in 1 .. Len(rt.buckets[i]) :
                BucketOf(rt.buckets[i][k].node_id) = i
          /\ \A m, n \in 1 .. Len(Entries(rt)) :
                Entries(rt)[m].node_id = Entries(rt)[n].node_id => m = n)
    /\ [][Len(Entries(rt')) >= Len(Entries(rt))]_vars

\* C36 witness: peers sit in two different buckets, one of them full, and
\* a NodeId that was offered to the full bucket is not in the table.
C36_Witness ==
    /\ Cardinality({ i \in DOMAIN rt.buckets : rt.buckets[i] # << >> }) >= 2
    /\ \E i \in DOMAIN rt.buckets : Len(rt.buckets[i]) = K_BUCKET_SIZE
    /\ \E j \in 1 .. Len(addLog) :
          \A m \in 1 .. Len(Entries(rt)) : Entries(rt)[m].node_id # addLog[j].node_id

\* C30: the bucket that get_bucket_index returns for the all-zero distance
\* is reserved for the local node: every entry add_peer stored in it has
\* the NodeId local_id.
C30_SelfBucketReserved ==
    LET self == rt.buckets[get_bucket_index(rt, ZeroId)]
    IN  \A i \in 1 .. Len(self) : self[i].node_id = rt.local_id

(***************************************************************************)
(* Handshake and listener properties                                       *)
(***************************************************************************)

\* the one routing-table entry a node holds for the identity of p
EntryOf(p) == [node_id |-> p.node_id, peer_id_str |-> p.peer_id]

\* nothing is in flight and no handshake poll can make progress
PairQuiescent ==
    /\ \A n \in Nodes : sock[n].tx = << >>
    /\ \A n \in Nodes : HsDone(hs[n]) \/ (hs[n].pc # "idle" /\ RunHandshake(Ctx(n)) = Ctx(n))

\* C5: end-to-end handshake.  Two nodes joined by a reliable byte stream
\* each run handshake().  Whatever the interleaving of polls and of partial
\* deliveries: no handshake returns Err; a node whose handshake returned Ok
\* has exactly one routing-table entry, equal to the other node's
\* (NodeId, peer-id string), and before that its table is empty; and the
\* exchange cannot come to rest before both handshakes have returned Ok.
C5_EndToEndHandshake ==
    /\ \A n \in Nodes : hs[n].pc # "err"
    /\ \A n \in Nodes :
           Entries(p2p[n].routing_table) =
               IF hs[n].pc = "ok" THEN <<EntryOf(p2p[Other(n)])>> ELSE << >>
    /\ PairQuiescent => \A n \in Nodes : hs[n].pc = "ok"

\* both handshakes have returned Ok between nodes of different identities
C5_Witness ==
    /\ \A n \in Nodes : hs[n].pc = "ok"
    /\ p2p["A"].node_id # p2p["B"].node_id
    /\ Len(p2p["A"].peer_id) # Len(p2p["B"].peer_id)
    /\ PairQuiescent

\* an identity payload that handshake() must refuse
Malformed(payload) ==
    \/ Len(payload) < LEN_BYTES + ID_SIZE
    \/ Len(payload) < LEN_BYTES + from_le_bytes(SubSeq(payload, 1, LEN_BYTES)) + ID_SIZE

\* C14: malformed identity payload.  Every poll of the listener in which
\* the handshake returns after having received a framed message that is
\* shorter than 4 + ID_SIZE bytes (36 in the source), or shorter than
\* 4 + L + ID_SIZE with L its leading little-endian length, returns Err,
\* leaves P2P_STATE and with it the routing table as it was, and leaves the
\* listener suspended in its yield with the socket closed by it.
C14_MalformedIdentity ==
    [][ ( /\ ListenerPoll
          /\ lpc = "handshake" \/ sock["A"].state \in {"Established", "CloseWait"}
          /\ HsDone(hs'["A"])
          /\ hs'["A"].len > 0
          /\ Malformed(hs'["A"].acc) )
        => ( /\ hs'["A"].pc = "err"
             /\ p2p' = p2p
             /\ lpc' = "yield"
             /\ sock'["A"].state \notin {"Established", "CloseWait"} ) ]_vars

\* a payload that announces a longer string than it carries has been
\* refused by a node whose table already holds a peer
C14_Witness ==
    /\ hs["A"].pc = "err"
    /\ hs["A"].acc = <<3, 0, 0, 0, 65, 66>>
    /\ lpc = "yield"
    /\ Entries(p2p["A"].routing_table) # << >>

\* the PeerInfo handshake() builds from a well-formed identity payload
PeerInfoOf(payload) ==
    LET len == from_le_bytes(SubSeq(payload, 1, LEN_BYTES))
    IN  [node_id |-> SubSeq(payload, LEN_BYTES + len + 1, LEN_BYTES + len + ID_SIZE),
         peer_id_str |-> from_utf8_lossy(SubSeq(payload, LEN_BYTES + 1, LEN_BYTES + len))]

C15_ListenerYield ==
    /\ lpc \in {"start", "yield", "handshake"}
    /\ pcExec \in {"idle", "pass"}
    /\ NoDuplicates(polled)
    /\ ListenerTask \in SeqToSet(polled) =>
          (ListenerTask \in pendingSet /\ lpc \in {"yield", "handshake"})
    /\ ListenerTask \in SeqToSet(task_queue)
    /\ pcExec = "pass" =>
          /\ tasks_to_run = Len(passStart) - Len(polled)
          /\ tasks_to_run > 0 => task_queue # << >>
    /\ pcExec = "idle" => polled = passStart

\* a pass over the listener and another task has returned; in it the
\* listener ended an iteration that ran a whole handshake
C15_Witness ==
    /\ pcExec = "idle"
    /\ Len(passStart) = 2
    /\ polled = passStart
    /\ lpc = "yield"
    /\ hs["A"].pc = "ok"
    /\ sock["A"].state = "FinWait1"

\* C16: no lock across suspension.  Whenever control is back in the
\* executor or the idle loop - the listener has answered Pending from a
\* transport future of the handshake or from its yield - no node holds
\* NETWORK_STACK, P2P_STATE or BUFFER_POOL: every lock taken in a poll was
\* released in that poll.
C16_NoLockAcrossSuspension ==
    \A n \in Nodes : held[n] = {}

\* the listener has answered Pending from inside recv_framed in this pass
C16_Witness ==
    /\ ListenerTask \in pendingSet
    /\ lpc = "handshake"
    /\ hs["A"].pc = "recv_data"
    /\ held["A"] = {}

\* C27: in the idle loop (poll_network, then EXECUTOR.lock().poll() with the
\* listener and the futures it awaits) and in p2p::init no lock() is made
\* on a mutex the control flow already holds, and every lock() made while
\* another lock is held follows LockOrder (EXECUTOR before NETWORK_STACK or
\* P2P_STATE, NETWORK_STACK before BUFFER_POOL); the idle loop itself holds
\* EXECUTOR exactly during a pass and nothing else between its calls.
C27_LockOrderNoSelfDeadlock ==
    /\ (mainHeld \cup held["A"]) \cap LockFaults = {}
    /\ mainHeld = (IF pcExec = "idle" THEN {} ELSE {"EXECUTOR"})

\* C27 witness: inside a pass, under EXECUTOR, the listener has run a
\* handshake to its end (NETWORK_STACK and P2P_STATE taken and released) and
\* has been requeued.
C27_Witness ==
    /\ pcExec = "pass"
    /\ mainHeld = {"EXECUTOR"}
    /\ ListenerTask \in pendingSet
    /\ lpc = "yield"
    /\ hs["A"].pc = "ok"
    /\ Entries(p2p["A"].routing_table) # << >>

(***************************************************************************)
(* Calls on the DMA allocator (memory.rs, hal.rs)                          *)
(***************************************************************************)

\* VirtioHal::dma_alloc -> memory::allocate_contiguous_frames(pages)
DmaAlloc(pages) ==
    /\ dmaRet # "Panic"
    /\ Len(dmaLog) < MaxAllocs
    /\ LET r == allocate_contiguous_frames(dmaState, memMap, pages)
       IN  /\ dmaState' = r.state
           /\ dmaRet' = r.res
           /\ dmaLog' = IF r.res = "Some"
                        THEN Append(dmaLog, [addr |-> r.addr, pages |-> pages])
                        ELSE dmaLog
    /\ UNCHANGED <<memMap, dmaFrames>>

NextDma ==
    /\ UNCHANGED <<netVars, execVars, p2pVars, frameVars, kadVars, ipcVars, lockVars>>
    /\ \E pages \in 1 .. MaxDmaPages : DmaAlloc(pages)

DmaInit == InitNet /\ InitExecutor /\ InitP2P /\ InitFrameOff /\ InitKadOff /\ InitIpcOff /\ InitLockOff /\ InitDma

SpecDma == DmaInit /\ [][NextDma]_vars

\* C33: every call of allocate_contiguous_frames returns (it answers Some
\* or None), and the regions returned so far are page-aligned, lie inside
\* the largest usable region of the memory map and do not overlap each
\* other.
C33_DmaRegionsInside ==
    LET region == memMap[LargestUsable(memMap)]
        last(e) == e.addr + e.pages * PAGE_SIZE
    IN  /\ dmaRet # "Panic"
        /\ \A i \in 1 .. Len(dmaLog) :
              /\ dmaLog[i].addr % PAGE_SIZE = 0
              /\ region.start <= dmaLog[i].addr
              /\ last(dmaLog[i]) <= region.end
        /\ \A i, j \in 1 .. Len(dmaLog) :
              i < j => (last(dmaLog[j]) <= dmaLog[i].addr \/ last(dmaLog[i]) <= dmaLog[j].addr)

\* C31: listener persistence.  From the spawn in p2p::init on, the listener
\* task is in the executor queue exactly once - between passes, and after
\* each loop body of a pass - it is never among the tasks that answered
\* Ready, and its future is always at a suspension point of its loop.
C31_ListenerPersistence ==
    /\ CountIn(task_queue, ListenerTask) = 1
    /\ ListenerTask \notin finished
    /\ lpc \in {"start", "yield", "handshake"}
    /\ pcExec = "idle" => (polled = passStart /\ ListenerTask \in SeqToSet(task_queue))

\* C31 witness: a pass has ended in which another task answered Ready and
\* was dropped, while the listener, after a whole handshake, is the one
\* task left in the queue.
C31_Witness ==
    /\ pcExec = "idle"
    /\ Len(passStart) = 2
    /\ finished # {}
    /\ task_queue = <<ListenerTask>>
    /\ hs["A"].pc = "ok"
    /\ lpc = "yield"

\* the bytes of the peer's frame that have reached node "A" in the current
\* connection: those the handshake has taken and those still buffered
HsReceived ==
    IF lpc = "handshake" /\ hs["A"].pc = "recv_len" THEN hs["A"].acc \o sock["A"].rx
    ELSE IF lpc = "handshake" /\ hs["A"].pc = "recv_data"
    THEN to_le_bytes(hs["A"].len) \o hs["A"].acc \o sock["A"].rx
    ELSE sock["A"].rx

\* no complete frame has arrived: the prefix is short, or fewer payload
\* bytes than it announces
NoCompleteFrame ==
    \/ Len(HsReceived) < LEN_BYTES
    \/ Len(HsReceived) < LEN_BYTES + from_le_bytes(SubSeq(HsReceived, 1, LEN_BYTES))

\* the prefix that has arrived, if whole, announces a length within the limit
NoOverLimitPrefix ==
    Len(HsReceived) >= LEN_BYTES =>
        ~FrameTooLong(from_le_bytes(SubSeq(HsReceived, 1, LEN_BYTES)))

\* a step of the pass that polls the listener
ListenerPolled ==
    Len(polled') = Len(polled) + 1 /\ polled'[Len(polled')] = ListenerTask

\* the poll left the handshake pending, the socket open as it was, the
\* routing table as it was, and the pass one loop body shorter
StaysPending ==
    /\ lpc' = "handshake"
    /\ ~HsDone(hs'["A"])
    /\ sock'["A"].state = "Established"
    /\ p2p'["A"].routing_table = p2p["A"].routing_table
    /\ ListenerTask \in SeqToSet(task_queue')
    /\ tasks_to_run' = tasks_to_run - 1
    /\ tasks_to_run' >= 0

\* C32 as stated: while the peer keeps the connection open and no complete
\* identity frame has arrived, a poll of the listener leaves the handshake
\* pending, the socket open and the routing table unchanged.
C32_NoTimeoutAnyPrefix ==
    [][(ListenerPolled /\ sock["A"].state = "Established" /\ peerConn = "open"
          /\ NoCompleteFrame) => StaysPending]_vars

\* C32, amended: no timeout.  While the peer keeps the connection open, no
\* complete frame has arrived and no length prefix above MAX_FRAME has
\* arrived, every poll of the listener leaves the handshake pending, the
\* socket Established (not closed, not re-armed) and the routing table
\* unchanged; the poll returns and the pass moves on to its end: it never
\* runs more loop bodies than tasks were queued when it began.
C32_NoTimeout ==
    /\ [][(ListenerPolled /\ sock["A"].state = "Established" /\ peerConn = "open"
             /\ NoCompleteFrame /\ NoOverLimitPrefix) => StaysPending]_vars
    /\ [](pcExec = "pass" => tasks_to_run = Len(passStart) - Len(polled))

\* C32 witness: the peer sent part of its identity frame and stopped; the
\* handshake has taken the prefix and part of the payload and is pending in
\* recv_framed with the receive buffer drained, after a pass that ended.
C32_Witness ==
    /\ pcExec = "idle"
    /\ polled = passStart
    /\ lpc = "handshake"
    /\ hs["A"].pc = "recv_data"
    /\ hs["A"].cnt > 0
    /\ hs["A"].cnt < hs["A"].len
    /\ sock["A"].rx = << >>
    /\ sock["A"].state = "Established"
    /\ peerConn = "open"
    /\ Entries(p2p["A"].routing_table) = << >>

\* C6: listener recovery after a half-close.  When the peer has sent its FIN
\* before a complete identity frame and the receive buffer is drained, the
\* next poll of the pending handshake ends it (with Err), so that the
\* listener goes on to close the socket and to listen again.
C6_HalfCloseEndsHandshake ==
    (lpc = "handshake" /\ sock["A"].state = "CloseWait" /\ sock["A"].rx = << >>)
        => HsDone(RunHandshake(Ctx("A")).h)

(***************************************************************************)
(* Specifications of the executor and of the network device                *)
(***************************************************************************)

NextExec ==
    /\ \/ ExecSpawn
       \/ ExecPollBegin
       \/ ExecPollStep
       \/ ExecPollEnd
       \/ ExecSpin
    /\ UNCHANGED <<netVars, p2pVars, frameVars, kadVars, ipcVars, lockVars, dmaVars>>

Init == InitNet /\ InitExecutor /\ InitP2P /\ InitFrameOff /\ InitKadOff /\ InitIpcOff /\ InitLockOff /\ InitDmaOff

SpecExec == Init /\ [][NextExec]_vars

(***************************************************************************)
(* Executor properties                                                     *)
(***************************************************************************)

\* C3: round-robin pass.  With N tasks in the queue when poll() is called,
\* the pass polls exactly those N tasks, each once and in queue order; when
\* poll() has returned, the tasks that answered Pending are in the queue and
\* the tasks that answered Ready are not.  While the pass runs, the tasks
\* polled so far are a prefix of the queue the pass started with, so no task
\* is polled twice.
C3_RoundRobinPass ==
    /\ NoDuplicates(polled)
    /\ Len(polled) <= Len(passStart)
    /\ \A i \in 1 .. Len(polled) : polled[i] = passStart[i]
    /\ (pcExec = "idle") =>
          /\ polled = passStart
          /\ \A t \in SeqToSet(passStart) :
                /\ (t \in pendingSet) <=> (t \in SeqToSet(task_queue))
                /\ (t \notin pendingSet) <=> (t \in finished)

\* A pass over three or more tasks has returned, with both outcomes seen.
C3_Witness ==
    /\ pcExec = "idle"
    /\ Len(passStart) >= 3
    /\ pendingSet # {}
    /\ SeqToSet(passStart) \ pendingSet # {}
    /\ polled = passStart

\* C4: a task spawned by a task that is being polled in a pass is in the
\* queue (behind the tasks of that pass) as soon as the spawn call is made,
\* so that the pass can end and the next poll() reaches it.
C4_SpawnDuringPassEnqueued ==
    \A t \in spawnAsked : t \in SeqToSet(task_queue) \/ t \in finished

\* the tasks of the current pass that answered Ready so far
ReadyInPass == { i \in 1 .. Len(polled) : polled[i] \notin pendingSet }

\* the tasks in the queue that were spawned after the pass began
SpawnedInPass(q) == { i \in 1 .. Len(q) : q[i] \notin SeqToSet(passStart) }

\* C39: pass accounting.  In a pass that began with n queued tasks, the
\* counter is n minus the loop bodies run, each loop body finds a task to
\* pop (pop_front never answers None), and when the pass returns the queue
\* length is n minus the tasks that answered Ready plus the tasks spawned
\* during the pass.
C39_PassAccounting ==
    /\ [](pcExec = "pass" =>
            /\ tasks_to_run = Len(passStart) - Len(polled)
            /\ tasks_to_run > 0 => task_queue # << >>
            /\ Len(task_queue) = Len(passStart) - Cardinality(ReadyInPass)
                                    + Cardinality(SpawnedInPass(task_queue)))
    /\ [][(pcExec = "pass" /\ pcExec' = "idle") =>
            /\ Len(polled) = Len(passStart)
            /\ Len(task_queue') = Len(passStart) - Cardinality(ReadyInPass)
                                     + Cardinality(SpawnedInPass(task_queue'))]_vars

\* C39 witness: a pass over four tasks has returned; two answered Ready,
\* two Pending, and the queue holds the two.
C39_Witness ==
    /\ pcExec = "idle"
    /\ Len(passStart) = 4
    /\ polled = passStart
    /\ Cardinality(ReadyInPass) = 2
    /\ Len(task_queue) = 2

\* the tasks of the current pass that answered Pending, in the order they
\* had in the queue when the pass began
PendingInOrder == SelectSeq(passStart, LAMBDA t : t \in pendingSet)

\* C24: within a pass tasks are polled in queue order, head first; the tasks
\* that answered Pending sit behind the tasks still to be polled, and after
\* the pass lead the queue, in the relative order they had before it; a task
\* that answered Ready is never polled again.
C24_ExecutorFifo ==
    /\ [](/\ polled = SubSeq(passStart, 1, Len(polled))
          /\ (pcExec = "pass") =>
                task_queue = SubSeq(passStart, Len(polled) + 1, Len(passStart))
                                \o PendingInOrder
          /\ (pcExec = "idle") =>
                PendingInOrder = SubSeq(task_queue, 1, Len(PendingInOrder)))
    /\ [][Len(polled') = Len(polled) + 1 => polled'[Len(polled')] \notin finished]_vars

\* C24 witness: a pass has returned in which a task that answered Ready
\* stood between two that answered Pending, after an earlier pass had
\* finished a task.
C24_Witness ==
    /\ pcExec = "idle"
    /\ polled = passStart
    /\ \E i, j, k \in 1 .. Len(passStart) :
          /\ i < j /\ j < k
          /\ passStart[i] \in pendingSet
          /\ passStart[j] \in finished
          /\ passStart[k] \in pendingSet
    /\ finished \ SeqToSet(passStart) # {}

\* C25: a buffer submitted by a TX-token consume under an in-range token t
\* is in tx_buffers[t] and not in the free pool; it stays there until a
\* poll_transmit reports t, and the step that handles the report empties
\* the slot and pushes that buffer to the pool, once.
C25_TransmitLifecycle ==
    /\ [](\A t \in Tokens :
             tx_buffers[t] # NoBuf => CountIn(pool, tx_buffers[t]) = 0)
    /\ [][\A t \in Tokens :
            /\ t \in hwTxAvail' \ hwTxAvail =>
                  /\ txToken /\ ~txToken'
                  /\ tx_buffers[t] = NoBuf
                  /\ tx_buffers'[t] # NoBuf
            /\ tx_buffers[t] # NoBuf =>
                  \/ tx_buffers'[t] = tx_buffers[t]
                  \/ /\ pcNet \in {"rx_txc", "tx_txc"}
                     /\ hwTxUsed # << >>
                     /\ Head(hwTxUsed) = t
                     /\ tx_buffers'[t] = NoBuf
                     /\ pool' = Append(pool, tx_buffers[t])
                     /\ CountIn(pool', tx_buffers[t]) = 1]_vars

\* C25 witness: the latest step handled the report of a token: its slot is
\* empty and its buffer is in the pool once, while the other TX slot still
\* holds a buffer.
C25_Witness ==
    /\ txDone # << >>
    /\ tx_buffers[txDone[1]] = NoBuf
    /\ CountIn(pool, txDone[2]) = 1
    /\ Occupied(tx_buffers) # {}

\* C34: a VirtioTxToken exists only while fewer than QUEUE_SIZE tx_buffers
\* slots are occupied, whether transmit() or receive() handed it out; so a
\* consume never starts with every transmit slot in flight.
C34_TxFlightLimit ==
    txToken => FlightLimitOk(tx_buffers)

\* C35: no slot overwrite.  With a device that issues only tokens that are
\* not outstanding, every store into rx_buffers[t] (VirtioNetDevice::new,
\* replenish) or tx_buffers[t] (TX-token consume) finds the slot empty: no
\* buffer is dropped by being overwritten, and an occupied slot's token is
\* outstanding at the device.
C35_NoSlotOverwrite ==
    /\ [][\A t \in Tokens :
            /\ (rx_buffers'[t] # rx_buffers[t] /\ rx_buffers'[t] # NoBuf)
                  => rx_buffers[t] = NoBuf
            /\ (tx_buffers'[t] # tx_buffers[t] /\ tx_buffers'[t] # NoBuf)
                  => tx_buffers[t] = NoBuf]_vars
    /\ [](Occupied(rx_buffers) \subseteq hwRxAvail /\ Occupied(tx_buffers) \subseteq hwTxAvail)

\* C35 witness: slots have been used a second time - an RX slot holds a
\* buffer allocated after VirtioNetDevice::new, stored by the replenish
\* loop once the slot's first buffer had been taken, and a TX slot holds a
\* buffer that new() had first put in an RX slot.
C35_Witness ==
    /\ pcNet = "idle"
    /\ \E t \in Tokens : rx_buffers[t] > QUEUE_SIZE
    /\ \E u \in Tokens : tx_buffers[u] \in 1 .. QUEUE_SIZE

\* C26: the replenish loop of receive() is left only when the queue has
\* answered QueueFull, with every RX descriptor submitted, and the buffer
\* obtained for the refused submit is on the free pool again.
C26_ReplenishUntilFull ==
    [][(pcNet = "rx_repl" /\ pcNet' # "rx_repl") =>
          /\ pcNet' = "rx_poll"
          /\ hwRxAvail' = Tokens
          /\ Occupied(rx_buffers') = Tokens
          /\ pool' # << >>
          /\ pool' = IF pool # << >> THEN pool ELSE <<nAlloc'>>]_vars

NextNet ==
    /\ UNCHANGED <<execVars, p2pVars, frameVars, kadVars, ipcVars, lockVars, dmaVars>>
    /\ \/ NewStep
       \/ ReceiveBegin
       \/ TransmitBegin
       \/ TxCompleteStep
       \/ ReplenishStep
       \/ PollRxStep
       \/ RxConsume
       \/ RxTokenDiscard
       \/ TxConsume
       \/ TxTokenDrop
       \/ HwRxComplete
       \/ HwTxComplete
       \/ HwRogueUsed

SpecNet == Init /\ [][NextNet]_vars

NetBusyInit == InitNet /\ InitExecutor /\ InitP2P /\ InitFrameOff /\ InitKadOff /\ InitIpcOff /\ InitLockOff /\ InitDmaLarge

\* the driver with memory for one more buffer
SpecNetBusy == NetBusyInit /\ [][NextNet]_vars

====
